---- MODULE Spec2Model ----
(***************************************************************************)
(* The mock HTTP server of test/utils/NetworkMocking (NetworkMockingClass)  *)
(* and the polling waits of test/utils/SmartWaits.                         *)
(* Every handler turn of the single-threaded event loop is one action; a   *)
(* handler that awaits (request body, asynchronous responder, artificial   *)
(* delay, listen/close callbacks, poll sleeps) is split at its awaits.      *)
(***************************************************************************)
EXTENDS Integers, Sequences, FiniteSets, TLC

\* ------------------------------------------------------------------ bounds
MaxRequests == 3        \* requests the clients send in one run
MaxRoutes == 2          \* addMockRoute calls in one run
MaxInterceptors == 2    \* interceptors registered at one time, both chains together
MaxProbes == 1          \* requests sent in the runs that exercise interceptors or the life cycle
MaxTime == 3            \* clock ticks in one run
MaxConcurrent == 2      \* requests sent without waiting for a response

\* ------------------------------------------------------- JavaScript values
\* Strings the code inspects (methods, URLs, bodies) are sequences of
\* one-character strings; host names, which are only copied, are TLA+ strings.
GET == <<"G", "E", "T">>
POST == <<"P", "O", "S", "T">>
Undefined == [t |-> "undefined"]
Null == [t |-> "null"]
Thrown == [t |-> "thrown"]
Promise == [t |-> "promise"]     \* a promise not yet settled
Resolved == [t |-> "resolved"]
Rejected == [t |-> "rejected"]
Str(s) == [t |-> "string", s |-> s]
Num(n) == [t |-> "number", n |-> n]
\* /src/ with optional ^ and $ anchors: the patterns the examples use
RegExp(src, anchorStart, anchorEnd) ==
    [t |-> "regexp", s |-> src, anchorStart |-> anchorStart, anchorEnd |-> anchorEnd]

\* typeof v === 'string' (plain objects are records without a tag)
IsString(v) == "t" \in DOMAIN v /\ v.t = "string"

\* JavaScript truthiness of the values above
Truthy(v) ==
    CASE v.t = "undefined" -> FALSE
      [] v.t = "null" -> FALSE
      [] v.t = "string" -> v.s # <<>>
      [] v.t = "number" -> v.n # 0
      [] v.t = "boolean" -> v.v
      [] OTHER -> TRUE

\* { ...a, ...b }
Merge(a, b) ==
    [f \in (DOMAIN a) \cup (DOMAIN b) |-> IF f \in DOMAIN b THEN b[f] ELSE a[f]]

\* String.prototype.startsWith
StartsWith(s, p) == Len(p) <= Len(s) /\ SubSeq(s, 1, Len(p)) = p

\* String.prototype.endsWith
EndsWith(s, p) == Len(p) <= Len(s) /\ SubSeq(s, Len(s) - Len(p) + 1, Len(s)) = p

\* String.prototype.includes
Includes(s, sub) ==
    \E k \in 0..(Len(s) - Len(sub)) : SubSeq(s, k + 1, k + Len(sub)) = sub

\* s.split('?')[0]
SplitQuery(s) ==
    IF \E k \in 1..Len(s) : s[k] = "?"
    THEN LET first == CHOOSE k \in 1..Len(s) :
                          s[k] = "?" /\ \A j \in 1..(k - 1) : s[j] # "?"
         IN SubSeq(s, 1, first - 1)
    ELSE s

\* RegExp.prototype.test for a literal pattern with optional anchors
RegExpTest(re, s) ==
    CASE re.anchorStart /\ re.anchorEnd -> s = re.s
      [] re.anchorStart -> StartsWith(s, re.s)
      [] re.anchorEnd -> EndsWith(s, re.s)
      [] OTHER -> Includes(s, re.s)

\* `http://${host}:${port}`
Url(host, port) == <<"http://", host, ":", port>>

\* ------------------------------------------------------------------- state
VARIABLES
    mockServer,            \* Null, or the http.Server: [state, host, port]
    serverPort,
    serverHost,
    enableLogging,
    mockRoutes,            \* Map: method -> sequence of route references
    routeObjs,             \* the MockRoute objects, by reference (creation order)
    requestInterceptors,
    responseInterceptors,
    requestLogs,
    req,                   \* the requests of the run and where each handler is
    ret,                   \* what the last call of each API method returned (and,
                           \* as history, what it was given)
    wfr,                   \* the waitForRequest call in progress
    now,                   \* Date.now()
    sw,                    \* the SmartWaits call in progress
    seen                   \* history: what each handler found when it matched

vars == <<mockServer, serverPort, serverHost, enableLogging, mockRoutes, routeObjs,
          requestInterceptors, responseInterceptors, requestLogs, req, ret, wfr, now,
          sw, seen>>

serverVars == <<mockServer, serverPort, serverHost, enableLogging>>
mockVars == <<mockRoutes, routeObjs, requestInterceptors, responseInterceptors, requestLogs>>

NoRequest == [pc |-> "none"]

Init ==
    /\ mockServer = Null
    /\ serverPort = 0
    /\ serverHost = "localhost"
    /\ enableLogging = FALSE
    /\ mockRoutes = <<>>
    /\ routeObjs = <<>>
    /\ requestInterceptors = <<>>
    /\ responseInterceptors = <<>>
    /\ requestLogs = <<>>
    /\ req = [i \in 1..MaxRequests |-> NoRequest]
    /\ ret = [startMockServer |-> Undefined, stopMockServer |-> Undefined,
              findRequests |-> Undefined, config |-> Undefined, cleanup |-> Undefined,
              getRequestLogs |-> Undefined, assert |-> Undefined]
    /\ wfr = [pc |-> "idle"]
    /\ now = 0
    /\ sw = [pc |-> "idle"]
    /\ seen = [i \in 1..MaxRequests |-> Undefined]

\* ------------------------------------------------------------ server start
\* startMockServer recording the requested address before the running check
StartMockServerRecordsFirst(config) ==
    IF mockServer # Null
    THEN /\ ret' = [ret EXCEPT !.startMockServer = Str(Url(config.host, config.port)),
                            !.config = config]
         /\ serverPort' = config.port
         /\ serverHost' = config.host
         /\ UNCHANGED <<mockServer, enableLogging, mockVars, req, wfr, now, sw, seen>>
    ELSE /\ serverPort' = config.port
         /\ serverHost' = config.host
         /\ enableLogging' = config.enableLogging
         /\ mockServer' = [state |-> "pending", host |-> config.host, port |-> config.port]
         /\ ret' = [ret EXCEPT !.startMockServer = Promise, !.config = config]
         /\ UNCHANGED <<mockVars, req, wfr, now, sw, seen>>

\* startMockServer(config): the synchronous part, up to listen()
StartMockServer(config) ==
    IF mockServer # Null
    THEN /\ ret' = [ret EXCEPT !.startMockServer = Str(Url(serverHost, serverPort)),
                            !.config = config]
         /\ UNCHANGED <<serverVars, mockVars, req, wfr, now, sw, seen>>
    ELSE /\ serverPort' = config.port
         /\ serverHost' = config.host
         /\ enableLogging' = config.enableLogging
         /\ mockServer' = [state |-> "pending", host |-> config.host, port |-> config.port]
         /\ ret' = [ret EXCEPT !.startMockServer = Promise, !.config = config]
         /\ UNCHANGED <<mockVars, req, wfr, now, sw, seen>>

\* the listen callback: the promise resolves with the url
ListenCallback ==
    /\ mockServer # Null
    /\ mockServer.state = "pending"
    /\ mockServer' = [mockServer EXCEPT !.state = "listening"]
    /\ ret' = [ret EXCEPT !.startMockServer = Str(Url(mockServer.host, mockServer.port))]
    /\ UNCHANGED <<serverPort, serverHost, enableLogging, mockVars, req, wfr, now, sw, seen>>

\* the server's 'error' event while it tries to listen (the port is in use, the
\* address is not available): console.error(...); reject(err). The server has no
\* handle then, and this.mockServer still holds it.
ListenError ==
    /\ mockServer # Null
    /\ mockServer.state = "pending"
    /\ mockServer' = [mockServer EXCEPT !.state = "failed"]
    /\ ret' = [ret EXCEPT !.startMockServer = Rejected]
    /\ UNCHANGED <<serverPort, serverHost, enableLogging, mockVars, req, wfr, now, sw, seen>>

IsListening == mockServer # Null /\ mockServer.state = "listening"

\* ------------------------------------------------------------------ routes
\* addMockRoute(route): a new route object is pushed on its method's list
AddMockRoute(route) ==
    /\ Len(routeObjs) < MaxRoutes
    /\ routeObjs' = Append(routeObjs, Merge(route, [registered |-> route.times]))
    /\ LET id == Len(routeObjs) + 1
           had == IF route.method \in DOMAIN mockRoutes THEN mockRoutes[route.method] ELSE <<>>
       IN mockRoutes' = [m \in (DOMAIN mockRoutes) \cup {route.method} |->
                            IF m = route.method THEN Append(had, id) ELSE mockRoutes[m]]
    /\ UNCHANGED <<serverVars, requestInterceptors, responseInterceptors, requestLogs,
                   req, ret, wfr, now, sw, seen>>

\* the path test with any route path that is a prefix taken for a match
PathMatchesPrefix(path, url) ==
    IF path.t = "string"
    THEN LET urlPath == SplitQuery(url)
             routePath == SplitQuery(path.s)
         IN urlPath = routePath \/ StartsWith(urlPath, routePath)
    ELSE path.t = "regexp" /\ RegExpTest(path, url)

\* the path test of findMatchingRoute for one route
PathMatches(path, url) ==
    IF path.t = "string"
    THEN LET urlPath == SplitQuery(url)
             routePath == SplitQuery(path.s)
         IN urlPath = routePath \/ (EndsWith(routePath, <<"/">>) /\ StartsWith(urlPath, routePath))
    ELSE path.t = "regexp" /\ RegExpTest(path, url)

RECURSIVE FirstMatchLastWins(_, _, _)
\* findMatchingRoute with the loop keeping the last match instead of returning
\* the first
FirstMatchLastWins(routes, objs, url) ==
    IF routes = <<>> THEN 0
    ELSE LET later == FirstMatchLastWins(Tail(routes), objs, url)
             route == objs[Head(routes)]
         IN IF later # 0 THEN later
            ELSE IF route.times # Num(0) /\ PathMatches(route.path, url) THEN Head(routes)
            ELSE 0

RECURSIVE FirstMatch(_, _, _)
\* the for loop of findMatchingRoute over the method's list; 0 is null
FirstMatch(routes, objs, url) ==
    IF routes = <<>> THEN 0
    ELSE LET route == objs[Head(routes)]
         IN IF route.times = Num(0) THEN FirstMatch(Tail(routes), objs, url)
            ELSE IF PathMatches(route.path, url) THEN Head(routes)
            ELSE FirstMatch(Tail(routes), objs, url)

findMatchingRoute(method, url) ==
    LET routes == IF method \in DOMAIN mockRoutes THEN mockRoutes[method] ELSE <<>>
    IN FirstMatch(routes, routeObjs, url)

\* removeMockRoute leaving the exhausted route in the list
removeMockRouteKeeps(table, objs, id) == table

\* routes.splice(routes.indexOf(routeToRemove), 1) on the method's current list
removeMockRoute(table, objs, id) ==
    LET method == objs[id].method
    IN IF method \in DOMAIN table
       THEN [table EXCEPT ![method] =
                SelectSeq(table[method], LAMBDA r : r # id)]
       ELSE table

\* ------------------------------------------------------------ interceptors
\* The interceptor functions a test registers. Request side:
\*   "null"    () => null
\*   "setX"    sets header X to 1
\*   "appendX" appends 2 to header X of the request it is given
\*   "rewrite" replaces /v1 by /v2 at the start of the url, else returns null
\*   "throws"  throws
RequestInterceptor(kind, request) ==
    CASE kind = "setX" -> [headers |-> [X |-> <<1>>]]
      [] kind = "appendX" -> [headers |-> [X |-> Append(request.headers.X, 2)]]
      [] kind = "rewrite" ->
            IF StartsWith(request.url, <<"/", "v", "1">>)
            THEN [url |-> <<"/", "v", "2">> \o SubSeq(request.url, 4, Len(request.url))]
            ELSE Null
      [] kind = "throws" -> Thrown
      [] OTHER -> Null

\* Response side:
\*   "null"    () => null
\*   "offline" the interceptor simulateNetworkConditions({offline: true}) installs
\*   "ok"      forces status 200
\*   "stamp"   copies the status it is given into header X-Status
\*   "latency" the interceptor simulateNetworkConditions({latency}) installs
\*   "throws"  throws
ResponseInterceptor(kind, response) ==
    CASE kind = "offline" -> [status |-> Num(503), body |-> [error |-> "Network offline"]]
      [] kind = "ok" -> [status |-> Num(200)]
      [] kind = "stamp" -> [headers |-> Merge(response.headers, [XStatus |-> response.status])]
      [] kind = "latency" -> response
      [] kind = "throws" -> Thrown
      [] OTHER -> Null

\* a returned interceptor result is an object (truthy) unless it is null
IsObject(result) == "t" \notin DOMAIN result

RECURSIVE ApplyRequestInterceptorsReversed(_, _)
\* the request chain run from the last registered interceptor to the first
ApplyRequestInterceptorsReversed(chain, modifiedRequest) ==
    IF chain = <<>> THEN modifiedRequest
    ELSE LET result == RequestInterceptor(chain[Len(chain)], modifiedRequest)
         IN IF result = Thrown THEN Thrown
            ELSE ApplyRequestInterceptorsReversed(SubSeq(chain, 1, Len(chain) - 1),
                     IF IsObject(result) THEN Merge(modifiedRequest, result)
                     ELSE modifiedRequest)

RECURSIVE ApplyRequestInterceptors(_, _)
\* for (const interceptor of this.requestInterceptors) { ... }
ApplyRequestInterceptors(chain, modifiedRequest) ==
    IF chain = <<>> THEN modifiedRequest
    ELSE LET result == RequestInterceptor(Head(chain), modifiedRequest)
         IN IF result = Thrown THEN Thrown
            ELSE ApplyRequestInterceptors(Tail(chain),
                     IF IsObject(result) THEN Merge(modifiedRequest, result)
                     ELSE modifiedRequest)

RECURSIVE ApplyResponseInterceptors(_, _)
\* for (const interceptor of this.responseInterceptors) { ... }
ApplyResponseInterceptors(chain, modifiedResponse) ==
    IF chain = <<>> THEN modifiedResponse
    ELSE LET result == ResponseInterceptor(Head(chain), modifiedResponse)
         IN IF result = Thrown THEN Thrown
            ELSE ApplyResponseInterceptors(Tail(chain),
                     IF IsObject(result) THEN Merge(modifiedResponse, result)
                     ELSE modifiedResponse)

addRequestInterceptor(kind) ==
    /\ Len(requestInterceptors) + Len(responseInterceptors) < MaxInterceptors
    /\ requestInterceptors' = Append(requestInterceptors, kind)
    /\ UNCHANGED <<serverVars, mockRoutes, routeObjs, responseInterceptors, requestLogs,
                   req, ret, wfr, now, sw, seen>>

addResponseInterceptor(kind) ==
    /\ Len(requestInterceptors) + Len(responseInterceptors) < MaxInterceptors
    /\ responseInterceptors' = Append(responseInterceptors, kind)
    /\ UNCHANGED <<serverVars, mockRoutes, routeObjs, requestInterceptors, requestLogs,
                   req, ret, wfr, now, sw, seen>>

\* -------------------------------------------------------- request handling
\* A client's request reaches the listening server; its body is being read.
Arrive(i, method, url, body) ==
    /\ IsListening
    /\ req[i].pc = "none"
    /\ \A j \in 1..(i - 1) : req[j].pc # "none"
    /\ req' = [req EXCEPT ![i] = [pc |-> "body", method |-> method, url |-> url,
                                  headers |-> [X |-> <<>>], body |-> body]]
    /\ UNCHANGED <<serverVars, mockVars, ret, wfr, now, sw, seen>>

\* the responder functions a test registers:
\*   "echo"   (req) => ({ status: 201, body: { received: req } })
\*   "throws" throws (or returns a rejected promise)
Responder(fn, request) ==
    IF fn = "echo" THEN [status |-> Num(201), body |-> [received |-> request]]
    ELSE Thrown

\* typeof body === 'string' ? body : JSON.stringify(body), with the catch
Serialize(body) ==
    IF IsString(body) THEN body
    ELSE IF "circular" \in DOMAIN body THEN [json |-> [error |-> "Failed to serialize response"]]
    ELSE [json |-> body]

Field(obj, f) == IF f \in DOMAIN obj THEN obj[f] ELSE Undefined

\* sendMockResponse from "Apply response interceptors" to its end: one turn
Finish(i, route, request, mockResponse) ==
    LET status == Field(mockResponse, "status")
        headers == Field(mockResponse, "headers")
        initial == [status |-> IF Truthy(status) THEN status ELSE Num(200),
                    headers |-> IF Truthy(headers) THEN headers
                                ELSE [ContentType |-> "application/json"],
                    body |-> Field(mockResponse, "body"),
                    request |-> [method |-> request.method, url |-> request.url]]
        modifiedResponse == ApplyResponseInterceptors(responseInterceptors, initial)
        times == routeObjs[route].times
    IN IF modifiedResponse = Thrown
       THEN /\ req' = [req EXCEPT ![i] = Merge(@, [pc |-> "failed", route |-> route,
                                                   request |-> request])]
            /\ UNCHANGED <<mockRoutes, routeObjs>>
       ELSE /\ req' = [req EXCEPT ![i] =
                          Merge(@, [pc |-> "done", route |-> route, request |-> request,
                                    initial |-> initial,
                                    chain |-> responseInterceptors,
                                    status |-> modifiedResponse.status.n,
                                    resHeaders |-> modifiedResponse.headers,
                                    resBody |-> Serialize(modifiedResponse.body)])]
            /\ IF times # Undefined /\ times.n > 0
               THEN /\ routeObjs' = [routeObjs EXCEPT ![route].times = Num(times.n - 1)]
                    /\ mockRoutes' = IF times.n - 1 = 0
                                     THEN removeMockRoute(mockRoutes, routeObjs, route)
                                     ELSE mockRoutes
               ELSE UNCHANGED <<mockRoutes, routeObjs>>

\* sendMockResponse from "Apply delay if specified" on
AfterResponder(i, route, request, mockResponse) ==
    IF Truthy(Field(mockResponse, "delay"))
    THEN /\ req' = [req EXCEPT ![i] = Merge(@, [pc |-> "delay", route |-> route,
                                                request |-> request,
                                                mockResponse |-> mockResponse])]
         /\ UNCHANGED <<mockRoutes, routeObjs>>
    ELSE Finish(i, route, request, mockResponse)

\* sendMockResponse from its start to the first await
sendMockResponse(i, route, request) ==
    IF routeObjs[route].response.type = "function"
    THEN /\ req' = [req EXCEPT ![i] = Merge(@, [pc |-> "responder", route |-> route,
                                                request |-> request])]
         /\ UNCHANGED <<mockRoutes, routeObjs>>
    ELSE AfterResponder(i, route, request, routeObjs[route].response.value)

\* const requestData = { method, url, headers, body: body || undefined, ... }
RequestData(r) ==
    [method |-> r.method, url |-> r.url, headers |-> r.headers,
     body |-> IF r.body # <<>> THEN Str(r.body) ELSE Undefined]

\* let modifiedRequest = { method, url, headers, body }, through the chain
Intercepted(r) ==
    ApplyRequestInterceptors(requestInterceptors,
        [method |-> r.method, url |-> r.url, headers |-> r.headers, body |-> r.body])

\* No mock found - send 404, without the url
NotFoundWithoutUrl(modifiedRequest) ==
    [status |-> 404,
     resHeaders |-> [ContentType |-> "application/json"],
     resBody |-> [json |-> [error |-> "Mock not found"]]]

\* No mock found - send 404
NotFound(modifiedRequest) ==
    [status |-> 404,
     resHeaders |-> [ContentType |-> "application/json"],
     resBody |-> [json |-> [error |-> "Mock not found", url |-> modifiedRequest.url]]]

\* handleRequest from "Find matching mock route" on (an interceptor that threw
\* has ended the handler before it)
Dispatch(i, modifiedRequest) ==
    IF modifiedRequest = Thrown
    THEN /\ req' = [req EXCEPT ![i].pc = "failed"]
         /\ seen' = [seen EXCEPT ![i] = [chain |-> requestInterceptors]]
         /\ UNCHANGED <<mockRoutes, routeObjs>>
    ELSE LET mockRoute == findMatchingRoute(modifiedRequest.method, modifiedRequest.url)
         IN /\ seen' = [seen EXCEPT ![i] = [chain |-> requestInterceptors,
                                            mockRoutes |-> mockRoutes,
                                            routeObjs |-> routeObjs]]
            /\ IF mockRoute # 0
               THEN sendMockResponse(i, mockRoute, modifiedRequest)
               ELSE /\ req' = [req EXCEPT ![i] =
                           Merge(@, Merge([pc |-> "done", route |-> 0,
                                           request |-> modifiedRequest],
                                          NotFound(modifiedRequest)))]
                    /\ UNCHANGED <<mockRoutes, routeObjs>>

\* handleRequest logging after the interceptors, and what they made of the request
handleRequestLogsLate(i) ==
    /\ req[i].pc = "body"
    /\ requestLogs' = IF Intercepted(req[i]) = Thrown THEN requestLogs
                      ELSE Append(requestLogs,
                                  RequestData(Merge(req[i], Intercepted(req[i]))))
    /\ Dispatch(i, Intercepted(req[i]))
    /\ UNCHANGED <<serverVars, requestInterceptors, responseInterceptors, ret, wfr, now, sw>>

\* handleRequest once the body is read: log, request interceptors, matching,
\* and the response when nothing has to be awaited
handleRequest(i) ==
    /\ req[i].pc = "body"
    /\ requestLogs' = Append(requestLogs, RequestData(req[i]))
    /\ Dispatch(i, Intercepted(req[i]))
    /\ UNCHANGED <<serverVars, requestInterceptors, responseInterceptors, ret, wfr, now, sw>>

\* the awaited responder function settles
ResponderSettles(i) ==
    /\ req[i].pc = "responder"
    /\ LET r == req[i]
           mockResponse == Responder(routeObjs[r.route].response.value, r.request)
       IN IF mockResponse = Thrown
          THEN /\ req' = [req EXCEPT ![i].pc = "failed"]
               /\ UNCHANGED <<mockRoutes, routeObjs>>
          ELSE AfterResponder(i, r.route, r.request, mockResponse)
    /\ UNCHANGED <<serverVars, requestInterceptors, responseInterceptors, requestLogs,
                   ret, wfr, now, sw, seen>>

\* the setTimeout of the artificial delay fires
DelayElapses(i) ==
    /\ req[i].pc = "delay"
    /\ Finish(i, req[i].route, req[i].request, req[i].mockResponse)
    /\ UNCHANGED <<serverVars, requestInterceptors, responseInterceptors, requestLogs,
                   ret, wfr, now, sw, seen>>

InFlight(i) == req[i].pc \in {"body", "responder", "delay"}

\* ------------------------------------------------------------- clear, reset
clearMockRoutes ==
    /\ mockRoutes' = <<>>
    /\ UNCHANGED <<serverVars, routeObjs, requestInterceptors, responseInterceptors,
                   requestLogs, req, ret, wfr, now, sw, seen>>

clearInterceptors ==
    /\ requestInterceptors' = <<>>
    /\ responseInterceptors' = <<>>
    /\ UNCHANGED <<serverVars, mockRoutes, routeObjs, requestLogs, req, ret, wfr, now, sw, seen>>

clearRequestLogs ==
    /\ requestLogs' = <<>>
    /\ UNCHANGED <<serverVars, mockRoutes, routeObjs, requestInterceptors,
                   responseInterceptors, req, ret, wfr, now, sw, seen>>

\* reset without clearInterceptors()
resetKeepsInterceptors ==
    /\ mockRoutes' = <<>>
    /\ requestLogs' = <<>>
    /\ UNCHANGED <<serverVars, routeObjs, requestInterceptors, responseInterceptors,
                   req, ret, wfr, now, sw, seen>>

\* reset(): clearMockRoutes(); clearRequestLogs(); clearInterceptors()
reset ==
    /\ mockRoutes' = <<>>
    /\ requestLogs' = <<>>
    /\ requestInterceptors' = <<>>
    /\ responseInterceptors' = <<>>
    /\ UNCHANGED <<serverVars, routeObjs, req, ret, wfr, now, sw, seen>>

\* -------------------------------------------------------------- server stop
\* stopMockServer(): the synchronous part. http.Server.close stops a listening
\* server from accepting and calls back once its connections have ended; on a
\* server that is not listening it calls back with ERR_SERVER_NOT_RUNNING.
stopMockServer ==
    /\ IF mockServer = Null
       THEN /\ ret' = [ret EXCEPT !.stopMockServer = Resolved]
            /\ UNCHANGED mockServer
       ELSE IF mockServer.state = "listening"
       THEN /\ mockServer' = [mockServer EXCEPT !.state = "closing"]
            /\ ret' = [ret EXCEPT !.stopMockServer = Promise]
       ELSE /\ ret' = [ret EXCEPT !.stopMockServer = Rejected]
            /\ UNCHANGED mockServer
    /\ UNCHANGED <<serverPort, serverHost, enableLogging, mockVars, req, wfr, now, sw, seen>>

\* the close callback without error: this.mockServer = null; resolve()
CloseCallback ==
    /\ mockServer # Null
    /\ mockServer.state = "closing"
    /\ \A i \in 1..MaxRequests : ~InFlight(i)
    /\ mockServer' = Null
    /\ ret' = [ret EXCEPT !.stopMockServer = Resolved,
                          !.cleanup = IF @ = Promise THEN Resolved ELSE @]
    /\ UNCHANGED <<serverPort, serverHost, enableLogging, mockVars, req, wfr, now, sw, seen>>

\* getMockServerUrl(): null without a server, else http://host:port
getMockServerUrl ==
    IF mockServer = Null THEN Null ELSE Str(Url(serverHost, serverPort))

\* isMockServerRunning(): this.mockServer !== null
isMockServerRunning == mockServer # Null

\* cleanup(): this.reset(); if (this.mockServer) await this.stopMockServer().
\* The call runs to the await in one turn; it completes in the turn of the close
\* callback, or at once when there is no server.
cleanup ==
    /\ mockRoutes' = <<>>
    /\ requestLogs' = <<>>
    /\ requestInterceptors' = <<>>
    /\ responseInterceptors' = <<>>
    /\ IF mockServer = Null
       THEN /\ ret' = [ret EXCEPT !.cleanup = Resolved]
            /\ UNCHANGED mockServer
       ELSE IF mockServer.state = "listening"
       THEN /\ mockServer' = [mockServer EXCEPT !.state = "closing"]
            /\ ret' = [ret EXCEPT !.stopMockServer = Promise, !.cleanup = Promise]
       ELSE /\ ret' = [ret EXCEPT !.stopMockServer = Rejected, !.cleanup = Rejected]
            /\ UNCHANGED mockServer
    /\ UNCHANGED <<serverPort, serverHost, enableLogging, routeObjs, req, wfr, now, sw, seen>>

\* ------------------------------------------------------------ request query
\* the filter callback of findRequests
LogMatches(criteria, log) ==
    LET method == Field(criteria, "method")
        urlPattern == Field(criteria, "urlPattern")
        bodyContains == Field(criteria, "bodyContains")
    IN IF Truthy(method) /\ log.method # method.s THEN FALSE
       ELSE IF Truthy(urlPattern)
               /\ (IF urlPattern.t = "string"
                   THEN ~Includes(log.url, urlPattern.s)
                   ELSE ~RegExpTest(urlPattern, log.url)) THEN FALSE
       ELSE IF Truthy(bodyContains) /\ Truthy(log.body)
               /\ ~Includes(log.body.s, bodyContains.s) THEN FALSE
       ELSE TRUE

findRequests(criteria) == SelectSeq(requestLogs, LAMBDA log : LogMatches(criteria, log))

\* a test calls findRequests(criteria)
FindRequests(criteria) ==
    /\ ret' = [ret EXCEPT !.findRequests = [criteria |-> criteria, logs |-> requestLogs,
                                            result |-> findRequests(criteria)]]
    /\ UNCHANGED <<serverVars, mockVars, req, wfr, now, sw, seen>>

\* one pass of the while loop of waitForRequest, from the loop test to the
\* return, the sleep or the throw
WaitLoop(w) ==
    IF now - w.startTime < w.timeout
    THEN LET requests == findRequests(w.criteria)
         IN IF Len(requests) > 0
            THEN Merge(w, [pc |-> "returned", result |-> requests[Len(requests)],
                           logs |-> requestLogs])
            ELSE Merge(w, [pc |-> "sleeping", wake |-> now + w.interval])
    ELSE Merge(w, [pc |-> "threw",
                   error |-> [message |-> "Request not found within", timeout |-> w.timeout,
                              criteria |-> w.criteria]])

\* waitForRequest(criteria, {timeout, interval}): the call, up to its first await
WaitForRequest(criteria, timeout, interval) ==
    /\ wfr.pc = "idle"
    /\ wfr' = WaitLoop([pc |-> "idle", criteria |-> criteria, timeout |-> timeout,
                        interval |-> interval, startTime |-> now])
    /\ UNCHANGED <<serverVars, mockVars, req, ret, now, sw, seen>>

\* the setTimeout(resolve, interval) of waitForRequest fires
WaitWakes ==
    /\ wfr.pc = "sleeping"
    /\ now >= wfr.wake
    /\ wfr' = WaitLoop(wfr)
    /\ UNCHANGED <<serverVars, mockVars, req, ret, now, sw, seen>>

\* time passes
Tick(maxTime) ==
    /\ now < maxTime
    /\ now' = now + 1
    /\ UNCHANGED <<serverVars, mockVars, req, ret, wfr, sw, seen>>

\* ------------------------------------------------------------------ inputs
\* What the tests of a run register and what the clients send.
Route(method, path, response, times) ==
    [method |-> method, path |-> path, response |-> response, times |-> times]
Static(status, body) ==
    [type |-> "object", value |-> [status |-> Num(status), body |-> Str(body)]]
Delayed(status, body, delay) ==
    [type |-> "object",
     value |-> [status |-> Num(status), body |-> Str(body), delay |-> Num(delay)]]
Function(fn) == [type |-> "function", value |-> fn]

PathX == <<"/", "x">>
PathY == <<"/", "y">>
PathV1 == <<"/", "v", "1">>
PathV2 == <<"/", "v", "2">>

Configs ==
    { [port |-> 8080, host |-> "localhost", enableLogging |-> TRUE],
      [port |-> 8081, host |-> "127.0.0.1", enableLogging |-> FALSE] }

\* ---------------------------------------------------- sequential requests
\* Clients that wait for each response before sending the next request.
SeqRoutes ==
    { Route(GET, Str(PathX), Static(200, <<"a">>), Num(1)),
      Route(GET, Str(PathX), Static(500, <<"b">>), Undefined),
      Route(GET, Str(PathX), Delayed(200, <<"c">>, 100), Num(2)),
      Route(GET, Str(PathX), Function("echo"), Num(1)) }

SeqRequests == { <<GET, PathX>>, <<GET, PathY>> }

NextSeq ==
    \/ \E config \in Configs : StartMockServer(config)
    \/ ListenCallback
    \/ \E route \in SeqRoutes : AddMockRoute(route)
    \/ \E i \in 1..MaxRequests, r \in SeqRequests :
          /\ \A j \in 1..MaxRequests : ~InFlight(j)
          /\ Arrive(i, r[1], r[2], <<>>)
    \/ \E i \in 1..MaxRequests : handleRequest(i)
    \/ \E i \in 1..MaxRequests : ResponderSettles(i)
    \/ \E i \in 1..MaxRequests : DelayElapses(i)

SpecSeq == Init /\ [][NextSeq]_vars

\* ------------------------------------------------------ concurrent requests
\* Clients that send requests without waiting for the responses, while the
\* test registers routes and resets.
Routes ==
    { Route(GET, Str(PathX), Delayed(200, <<"a">>, 100), Num(1)),
      Route(GET, Str(PathX), Function("echo"), Num(2)) }

Requests == { <<GET, PathX, <<>>>>, <<GET, PathY, <<"e">>>> }

Next ==
    \/ StartMockServer(CHOOSE config \in Configs : config.port = 8080)
    \/ ListenCallback
    \/ \E route \in Routes : AddMockRoute(route)
    \/ \E i \in 1..MaxConcurrent, r \in Requests : Arrive(i, r[1], r[2], r[3])
    \/ \E i \in 1..MaxRequests : handleRequest(i)
    \/ \E i \in 1..MaxRequests : ResponderSettles(i)
    \/ \E i \in 1..MaxRequests : DelayElapses(i)
    \/ reset

Spec == Init /\ [][Next]_vars

\* ------------------------------------------------------ interceptor chains
\* A test that registers interceptors and routes while clients send requests.
ChainRoutes ==
    { Route(GET, Str(PathV2), Function("echo"), Undefined),
      Route(GET, Str(PathV2), Static(200, <<"a">>), Num(0)) }

ChainRequests == { <<GET, PathV1, <<>>>>, <<GET, PathV2, <<"e">>>> }

RequestInterceptors == {"null", "setX", "appendX", "rewrite", "throws"}
ResponseInterceptors == {"null", "offline", "ok", "stamp", "throws"}

NextChain ==
    \/ StartMockServer(CHOOSE config \in Configs : config.port = 8080)
    \/ ListenCallback
    \/ \E route \in ChainRoutes : routeObjs = <<>> /\ AddMockRoute(route)
    \/ \E kind \in RequestInterceptors : addRequestInterceptor(kind)
    \/ \E kind \in ResponseInterceptors : addResponseInterceptor(kind)
    \/ \E i \in 1..MaxProbes, r \in ChainRequests : Arrive(i, r[1], r[2], r[3])
    \/ \E i \in 1..MaxRequests : handleRequest(i)
    \/ \E i \in 1..MaxRequests : ResponderSettles(i)

SpecChain == Init /\ [][NextChain]_vars

\* ------------------------------------------------------------ request query
\* A test that searches the request log while clients send requests.
QueryRequests == { <<GET, PathX, <<>>>>, <<POST, PathY, <<"e">>>>, <<POST, PathX, <<"f">>>> }

Criteria ==
    { [method |-> Str(POST)],
      [urlPattern |-> Str(PathX)],
      [urlPattern |-> RegExp(<<"y">>, FALSE, TRUE)],
      [bodyContains |-> Str(<<"e">>)],
      [method |-> Str(POST), urlPattern |-> Str(<<"/">>), bodyContains |-> Str(<<"f">>)] }

NextFind ==
    \/ StartMockServer(CHOOSE config \in Configs : config.port = 8080)
    \/ ListenCallback
    \/ \E i \in 1..MaxRequests, r \in QueryRequests : Arrive(i, r[1], r[2], r[3])
    \/ \E i \in 1..MaxRequests : handleRequest(i)
    \/ \E criteria \in Criteria : FindRequests(criteria)

SpecFind == Init /\ [][NextFind]_vars

\* A test that waits for a request while clients send requests and time passes.
WaitRequests == { <<GET, PathX, <<>>>>, <<POST, PathY, <<"e">>>> }
WaitCriteria == { [method |-> Str(POST)], [bodyContains |-> Str(<<"e">>)] }
Timeouts == {0, 2}
Intervals == {1}

NextWait ==
    \/ StartMockServer(CHOOSE config \in Configs : config.port = 8080)
    \/ ListenCallback
    \/ \E i \in 1..MaxConcurrent, r \in WaitRequests : Arrive(i, r[1], r[2], r[3])
    \/ \E i \in 1..MaxRequests : handleRequest(i)
    \/ \E criteria \in WaitCriteria, timeout \in Timeouts, interval \in Intervals :
          WaitForRequest(criteria, timeout, interval)
    \/ WaitWakes
    \/ Tick(MaxTime)

SpecWait == Init /\ [][NextWait]_vars

\* -------------------------------------------------------------- life cycle
\* A test that starts the server again and resets it while a client sends requests.
LifeRoutes == { Route(GET, Str(PathX), Delayed(200, <<"a">>, 100), Undefined) }
LifeRequests == { <<GET, PathX, <<>>>> }

NextLife ==
    \/ \E config \in Configs : StartMockServer(config)
    \/ ListenCallback
    \/ \E route \in LifeRoutes : routeObjs = <<>> /\ AddMockRoute(route)
    \/ addRequestInterceptor("setX")
    \/ addResponseInterceptor("stamp")
    \/ \E i \in 1..MaxProbes, r \in LifeRequests : Arrive(i, r[1], r[2], r[3])
    \/ \E i \in 1..MaxRequests : handleRequest(i)
    \/ \E i \in 1..MaxRequests : DelayElapses(i)
    \/ reset

SpecLife == Init /\ [][NextLife]_vars

\* ------------------------------------------------------- throwing handlers
RespondRoutes ==
    { Route(GET, Str(PathX), Function("echo"), Undefined),
      Route(GET, Str(PathX), Function("throws"), Undefined),
      Route(GET, Str(PathX), Static(200, <<"a">>), Undefined) }

RespondRequests == { <<GET, PathX, <<>>>>, <<GET, PathY, <<>>>> }

\* A test whose responder function or interceptors may throw, while clients
\* send requests.
NextRespond ==
    \/ StartMockServer(CHOOSE config \in Configs : config.port = 8080)
    \/ ListenCallback
    \/ \E route \in RespondRoutes : routeObjs = <<>> /\ AddMockRoute(route)
    \/ \E kind \in {"setX", "throws"} :
          requestInterceptors = <<>> /\ addRequestInterceptor(kind)
    \/ \E kind \in {"stamp", "throws"} :
          responseInterceptors = <<>> /\ addResponseInterceptor(kind)
    \/ \E i \in 1..MaxProbes, r \in RespondRequests : Arrive(i, r[1], r[2], r[3])
    \/ \E i \in 1..MaxRequests : handleRequest(i)
    \/ \E i \in 1..MaxRequests : ResponderSettles(i)

\* the event loop runs a handler whose body has been read, and an awaited
\* responder settles
SpecRespond ==
    /\ Init /\ [][NextRespond]_vars
    /\ WF_vars(\E i \in 1..MaxRequests : handleRequest(i))
    /\ WF_vars(\E i \in 1..MaxRequests : ResponderSettles(i))

\* ------------------------------------------------------------ failed start
\* A test that starts and stops the server on ports that may be in use, while a
\* client sends requests to it.
NextStart ==
    \/ \E config \in Configs : StartMockServer(config)
    \/ ListenCallback
    \/ ListenError
    \/ stopMockServer
    \/ CloseCallback
    \/ \E i \in 1..MaxProbes, r \in LifeRequests : Arrive(i, r[1], r[2], r[3])
    \/ \E i \in 1..MaxRequests : handleRequest(i)

SpecStart == Init /\ [][NextStart]_vars

\* ------------------------------------------------------------------ cleanup
\* A test that tears the server down while clients' requests are being handled;
\* it awaits cleanup() before it registers anything again.
NextCleanup ==
    \/ StartMockServer(CHOOSE config \in Configs : config.port = 8080)
    \/ ListenCallback
    \/ \E route \in LifeRoutes : ret.cleanup # Promise /\ AddMockRoute(route)
    \/ \E i \in 1..MaxConcurrent, r \in LifeRequests : Arrive(i, r[1], r[2], r[3])
    \/ \E i \in 1..MaxRequests : handleRequest(i)
    \/ \E i \in 1..MaxRequests : DelayElapses(i)
    \/ cleanup
    \/ CloseCallback

SpecCleanup == Init /\ [][NextCleanup]_vars

\* ----------------------------------------------------------- route matching
\* Routes with string paths (with a query string, with a trailing slash) and a
\* pattern, requests with and without query strings, and a URL-rewriting
\* request interceptor.
MatchRoutes ==
    { Route(GET, Str(PathV2 \o <<"?", "a">>), Static(200, <<"a">>), Undefined),
      Route(GET, Str(PathV2 \o <<"/">>), Static(200, <<"b">>), Undefined),
      Route(GET, RegExp(PathV2 \o <<"?", "b">>, FALSE, FALSE), Static(200, <<"c">>), Undefined),
      Route(POST, Str(PathV2), Static(200, <<"d">>), Undefined) }

MatchRequests ==
    { <<GET, PathV1 \o <<"?", "b">>>>, <<GET, PathV2 \o <<"/", "1">>>>,
      <<GET, PathV2>>, <<POST, PathV2>> }

NextMatch ==
    \/ StartMockServer(CHOOSE config \in Configs : config.port = 8080)
    \/ ListenCallback
    \/ \E route \in MatchRoutes : AddMockRoute(route)
    \/ addRequestInterceptor("rewrite")
    \/ \E i \in 1..MaxProbes, r \in MatchRequests : Arrive(i, r[1], r[2], <<>>)
    \/ \E i \in 1..MaxRequests : handleRequest(i)

SpecMatch == Init /\ [][NextMatch]_vars

\* --------------------------------------------------------- network conditions
\* simulateNetworkConditions(conditions): a response interceptor for offline,
\* another for latency (throughput only warns)
simulateNetworkConditions(conditions) ==
    LET offline == IF "offline" \in DOMAIN conditions /\ conditions.offline
                   THEN <<"offline">> ELSE <<>>
        latency == IF "latency" \in DOMAIN conditions /\ conditions.latency # 0
                   THEN <<"latency">> ELSE <<>>
    IN /\ Len(requestInterceptors) + Len(responseInterceptors)
             + Len(offline) + Len(latency) <= MaxInterceptors
       /\ responseInterceptors' = responseInterceptors \o offline \o latency
       /\ UNCHANGED <<serverVars, mockRoutes, routeObjs, requestInterceptors, requestLogs,
                      req, ret, wfr, now, sw, seen>>

NetworkConditions ==
    { [offline |-> TRUE], [latency |-> 500, offline |-> FALSE],
      [offline |-> TRUE, latency |-> 1000] }

OfflineRequests == { <<GET, PathX, <<>>>>, <<GET, PathY, <<>>>> }

\* A test that switches the simulated network off while clients send requests.
NextOffline ==
    \/ StartMockServer(CHOOSE config \in Configs : config.port = 8080)
    \/ ListenCallback
    \/ \E route \in LifeRoutes : routeObjs = <<>> /\ AddMockRoute(route)
    \/ \E conditions \in NetworkConditions : simulateNetworkConditions(conditions)
    \/ \E i \in 1..MaxConcurrent, r \in OfflineRequests : Arrive(i, r[1], r[2], r[3])
    \/ \E i \in 1..MaxRequests : handleRequest(i)
    \/ \E i \in 1..MaxRequests : DelayElapses(i)
    \/ clearInterceptors

SpecOffline == Init /\ [][NextOffline]_vars

\* ------------------------------------------------------------- log queries
\* getRequestLogs handing out the log itself and starting a new one:
\*   const logs = this.requestLogs; this.requestLogs = []; return logs
getRequestLogsDrains ==
    /\ ret' = [ret EXCEPT !.getRequestLogs = [returned |-> requestLogs]]
    /\ requestLogs' = <<>>
    /\ UNCHANGED <<serverVars, mockRoutes, routeObjs, requestInterceptors,
                   responseInterceptors, req, wfr, now, sw, seen>>

\* getRequestLogs(): return [...this.requestLogs]
getRequestLogs ==
    /\ ret' = [ret EXCEPT !.getRequestLogs = [returned |-> requestLogs]]
    /\ UNCHANGED <<serverVars, mockVars, req, wfr, now, sw, seen>>

\* assertRequestMade(criteria): throws when findRequests(criteria) is empty
assertRequestMade(criteria) ==
    /\ ret' = [ret EXCEPT !.assert =
                  IF Len(findRequests(criteria)) = 0
                  THEN [thrown |-> "No requests found matching: ", criteria |-> criteria]
                  ELSE [returned |-> "assertRequestMade"]]
    /\ UNCHANGED <<serverVars, mockVars, req, wfr, now, sw, seen>>

\* assertRequestNotMade(criteria): throws when findRequests(criteria) is not empty
assertRequestNotMade(criteria) ==
    /\ ret' = [ret EXCEPT !.assert =
                  IF Len(findRequests(criteria)) > 0
                  THEN [thrown |-> "Found ${requests.length} request(s) matching: ",
                        length |-> Len(findRequests(criteria)), criteria |-> criteria]
                  ELSE [returned |-> "assertRequestNotMade"]]
    /\ UNCHANGED <<serverVars, mockVars, req, wfr, now, sw, seen>>

\* A test that registers, queries, asserts, waits and clears while clients send
\* requests.
NextLog ==
    \/ StartMockServer(CHOOSE config \in Configs : config.port = 8080)
    \/ ListenCallback
    \/ routeObjs = <<>> /\ AddMockRoute(Route(POST, Str(PathY), Static(200, <<"a">>), Undefined))
    \/ responseInterceptors = <<>>
          /\ simulateNetworkConditions([latency |-> 500, offline |-> FALSE])
    \/ \E i \in 1..MaxConcurrent : Arrive(i, POST, PathY, <<"e">>)
    \/ \E i \in 1..MaxRequests : handleRequest(i)
    \/ FindRequests([method |-> Str(POST)])
    \/ getRequestLogs
    \/ assertRequestMade([method |-> Str(POST)])
    \/ assertRequestNotMade([method |-> Str(POST)])
    \/ WaitForRequest([method |-> Str(POST)], 1, 1)
    \/ clearRequestLogs
    \/ reset

SpecLog == Init /\ [][NextLog]_vars

\* ============================================================== SmartWaits
\* test/utils/SmartWaits.ts. One call is followed from its start to its end; a
\* turn ends where the code awaits (the condition, browser.pause).
MaxConditionTime == 1    \* the longest a condition takes to settle, in ms

DEFAULT_TIMEOUT == 15000
DEFAULT_POLLING_INTERVAL == 1000

False == [t |-> "boolean", v |-> FALSE]
Error(message) == [t |-> "error", name |-> "Error", message |-> message]

\* what an awaited condition() does: return a value T | false, or throw
Returns(value) == [kind |-> "return", value |-> value]
Throws(error) == [kind |-> "throw", value |-> error]

\* const { a = default } = options
Default(options, f, default) == IF f \in DOMAIN options THEN options[f] ELSE default

\* ------------------------------------------------------------- fluentWait
\* while (Date.now() - startTime <= timeout): the deadline itself still polled
FluentWhileInclusive(f, t) ==
    IF t - f.startTime <= f.timeout
    THEN [f EXCEPT !.pc = "condition", !.calls = @ + 1, !.lastCall = t - f.startTime,
                   !.lastOutcome = Undefined]
    ELSE [f EXCEPT !.pc = "returned", !.timedOut = TRUE, !.endAt = t - f.startTime,
                   !.result = Null,
                   !.console = Append(@, [text |-> "Fluent wait timeout: ",
                                          arg |-> f.timeoutMsg])]

\* while (Date.now() - startTime < timeout) { result = await condition() ... }
\* and, past the loop, console.log(`Fluent wait timeout: ...`); return null
FluentWhile(f, t) ==
    IF t - f.startTime < f.timeout
    THEN [f EXCEPT !.pc = "condition", !.calls = @ + 1, !.lastCall = t - f.startTime,
                   !.lastOutcome = Undefined]
    ELSE [f EXCEPT !.pc = "returned", !.timedOut = TRUE, !.endAt = t - f.startTime,
                   !.result = Null,
                   !.console = Append(@, [text |-> "Fluent wait timeout: ",
                                          arg |-> f.timeoutMsg])]

\* the frame of a fluentWait call: the destructured options, startTime, and as
\* history the options given, the invocations and pauses made and their times
FluentFrame(options, timeoutMsg) ==
    [fn |-> "fluentWait", pc |-> "start", options |-> options,
     timeout |-> Default(options, "timeout", DEFAULT_TIMEOUT),
     pollingInterval |-> Default(options, "pollingInterval", DEFAULT_POLLING_INTERVAL),
     timeoutMsg |-> timeoutMsg,
     ignoreExceptions |-> Default(options, "ignoreExceptions", TRUE),
     startTime |-> now, console |-> <<>>, result |-> Undefined, error |-> Undefined,
     calls |-> 0, pauses |-> 0, lastCall |-> 0, lastOutcome |-> Undefined,
     conditionTime |-> 0, unsatisfied |-> TRUE,
     timedOut |-> FALSE, endAt |-> 0]

\* fluentWait with the default message whatever the caller gives
fluentWaitDefaultMessage(options) ==
    /\ sw.pc = "idle"
    /\ sw' = FluentWhile(FluentFrame(options,
                 [template |-> "Condition not met within ${timeout}ms",
                  timeout |-> Default(options, "timeout", DEFAULT_TIMEOUT)]), now)
    /\ UNCHANGED <<serverVars, mockVars, req, ret, wfr, now, seen>>

\* fluentWait(condition, options) up to its first await
fluentWait(options) ==
    /\ sw.pc = "idle"
    /\ sw' = FluentWhile(FluentFrame(options,
                 Default(options, "timeoutMsg",
                     [template |-> "Condition not met within ${timeout}ms",
                      timeout |-> Default(options, "timeout", DEFAULT_TIMEOUT)])), now)
    /\ UNCHANGED <<serverVars, mockVars, req, ret, wfr, now, seen>>

\* the loop body after the condition settled, taking `if (result)` for the test
FluentBodyTruthy(f, outcome, t) ==
    LET g == [f EXCEPT !.lastOutcome = outcome,
                       !.unsatisfied = @ /\ outcome = Returns(False)]
    IN IF outcome.kind = "return"
       THEN IF Truthy(outcome.value)
            THEN [g EXCEPT !.pc = "returned", !.result = outcome.value, !.endAt = t - g.startTime]
            ELSE [g EXCEPT !.pc = "pause"]
       ELSE IF ~g.ignoreExceptions
            THEN [g EXCEPT !.pc = "threw", !.error = outcome.value,
                           !.endAt = t - g.startTime]
            ELSE [g EXCEPT !.pc = "pause",
                           !.console = Append(@, [text |-> "Exception ignored during fluent wait: ",
                                                  arg |-> outcome.value.message])]

\* the loop body after the condition settled, with the catch rethrowing when
\* ignoreExceptions is set
FluentBodyInverted(f, outcome, t) ==
    LET g == [f EXCEPT !.lastOutcome = outcome,
                       !.unsatisfied = @ /\ outcome = Returns(False)]
    IN IF outcome.kind = "return"
       THEN IF outcome.value # False
            THEN [g EXCEPT !.pc = "returned", !.result = outcome.value, !.endAt = t - g.startTime]
            ELSE [g EXCEPT !.pc = "pause"]
       ELSE IF g.ignoreExceptions
            THEN [g EXCEPT !.pc = "threw", !.error = outcome.value,
                           !.endAt = t - g.startTime]
            ELSE [g EXCEPT !.pc = "pause",
                           !.console = Append(@, [text |-> "Exception ignored during fluent wait: ",
                                                  arg |-> outcome.value.message])]

\* try { const result = await condition(); if (result !== false) return result }
\* catch (error) { if (!ignoreExceptions) throw error; console.log(...) }
FluentBody(f, outcome, t) ==
    LET g == [f EXCEPT !.lastOutcome = outcome,
                       !.unsatisfied = @ /\ outcome = Returns(False)]
    IN IF outcome.kind = "return"
       THEN IF outcome.value # False
            THEN [g EXCEPT !.pc = "returned", !.result = outcome.value, !.endAt = t - g.startTime]
            ELSE [g EXCEPT !.pc = "pause"]
       ELSE IF ~g.ignoreExceptions
            THEN [g EXCEPT !.pc = "threw", !.error = outcome.value,
                           !.endAt = t - g.startTime]
            ELSE [g EXCEPT !.pc = "pause",
                           !.console = Append(@, [text |-> "Exception ignored during fluent wait: ",
                                                  arg |-> outcome.value.message])]

\* the awaited condition() settles, d ms after it was invoked
FluentConditionSettles(outcome, d) ==
    /\ sw.pc = "condition"
    /\ sw.fn = "fluentWait"
    /\ now' = now + d
    /\ sw' = FluentBody([sw EXCEPT !.conditionTime = @ + d], outcome, now')
    /\ UNCHANGED <<serverVars, mockVars, req, ret, wfr, seen>>

\* await browser.pause(pollingInterval) ends, and the loop test is made again
FluentPauseElapses ==
    /\ sw.pc = "pause"
    /\ sw.fn = "fluentWait"
    /\ now' = now + sw.pollingInterval
    /\ sw' = FluentWhile([sw EXCEPT !.pauses = @ + 1], now')
    /\ UNCHANGED <<serverVars, mockVars, req, ret, wfr, seen>>

\* { f: v } for v in values, or the field left out
Optional(f, values) == {<<>>} \cup {[g \in {f} |-> v] : v \in values}

FluentOptions ==
    {Merge(Merge(a, b), Merge(c, d)) :
        a \in Optional("ignoreExceptions", {TRUE, FALSE}),
        b \in Optional("timeoutMsg", {Str(<<"m">>)}),
        c \in {[timeout |-> t] : t \in {0, 2, 3}},
        d \in {[pollingInterval |-> i] : i \in {1, 2}}}
    \cup {Merge(a, b) : a \in Optional("ignoreExceptions", {TRUE, FALSE}),
                        b \in Optional("timeoutMsg", {Str(<<"m">>)})}

ConditionOutcomes ==
    {Returns(False), Returns(Str(<<"v">>)), Returns(Num(0)), Throws(Error("e"))}

NextFluent ==
    \/ sw.pc = "idle" /\ Tick(MaxTime)
    \/ \E options \in FluentOptions : fluentWait(options)
    \/ \E outcome \in ConditionOutcomes, d \in 0..MaxConditionTime :
          FluentConditionSettles(outcome, d)
    \/ FluentPauseElapses

SpecFluent == Init /\ [][NextFluent]_vars

\* --------------------------------------------------------- waitWithBackoff
DEFAULT_MAX_ATTEMPTS == 5
DEFAULT_INITIAL_DELAY == 1000
DEFAULT_MAX_DELAY == 30000
DEFAULT_MULTIPLIER == 2

MathMin(a, b) == IF a <= b THEN a ELSE b

\* for (...; attempt <= maxAttempts; ...) { result = await condition() ... } and,
\* past the loop, console.log(`All ${maxAttempts} attempts failed`); return null
BackoffFor(f) ==
    IF f.attempt <= f.maxAttempts
    THEN [f EXCEPT !.pc = "condition", !.calls = @ + 1, !.lastOutcome = Undefined]
    ELSE [f EXCEPT !.pc = "returned", !.exhausted = TRUE, !.result = Null,
                   !.console = Append(@, [text |-> "All ${maxAttempts} attempts failed",
                                          arg |-> f.maxAttempts])]

\* the frame of a waitWithBackoff call: the destructured options, delay and
\* attempt, and as history the options given, the invocations and the pauses made
BackoffFrame(options) ==
    [fn |-> "waitWithBackoff", pc |-> "start", options |-> options,
     maxAttempts |-> Default(options, "maxAttempts", DEFAULT_MAX_ATTEMPTS),
     initialDelay |-> Default(options, "initialDelay", DEFAULT_INITIAL_DELAY),
     maxDelay |-> Default(options, "maxDelay", DEFAULT_MAX_DELAY),
     multiplier |-> Default(options, "multiplier", DEFAULT_MULTIPLIER),
     delay |-> Default(options, "initialDelay", DEFAULT_INITIAL_DELAY),
     attempt |-> 1, console |-> <<>>, result |-> Undefined, error |-> Undefined,
     calls |-> 0, pauses |-> <<>>, lastOutcome |-> Undefined, exhausted |-> FALSE]

\* waitWithBackoff(condition, options) up to its first await
waitWithBackoff(options) ==
    /\ sw.pc = "idle"
    /\ sw' = BackoffFor(BackoffFrame(options))
    /\ UNCHANGED <<serverVars, mockVars, req, ret, wfr, now, seen>>

\* the loop body after the condition settled, with a catch that rethrows
BackoffBodyRethrows(f, outcome) ==
    LET g == [f EXCEPT !.lastOutcome = outcome]
    IN IF outcome.kind = "return" /\ outcome.value # False
       THEN [g EXCEPT !.pc = "returned", !.result = outcome.value,
                      !.console = Append(@, [text |-> "Condition met on attempt ",
                                             arg |-> g.attempt])]
       ELSE IF outcome.kind = "throw"
       THEN [g EXCEPT !.pc = "threw", !.error = outcome.value]
       ELSE IF g.attempt < g.maxAttempts
            THEN [g EXCEPT !.pc = "pause",
                           !.console = Append(@, [text |-> "Waiting ${delay}ms before retry...",
                                                  arg |-> g.delay])]
            ELSE BackoffFor([g EXCEPT !.attempt = @ + 1])

\* try { result = await condition(); if (result !== false) return result }
\* catch (error) { console.log(...) }  if (attempt < maxAttempts) { pause ... }
BackoffBody(f, outcome) ==
    LET g == [f EXCEPT !.lastOutcome = outcome]
    IN IF outcome.kind = "return" /\ outcome.value # False
       THEN [g EXCEPT !.pc = "returned", !.result = outcome.value,
                      !.console = Append(@, [text |-> "Condition met on attempt ",
                                             arg |-> g.attempt])]
       ELSE LET h == IF outcome.kind = "throw"
                     THEN [g EXCEPT !.console =
                              Append(@, [text |-> "Attempt ${attempt} failed: ",
                                         arg |-> outcome.value.message])]
                     ELSE g
            IN IF h.attempt < h.maxAttempts
               THEN [h EXCEPT !.pc = "pause",
                              !.console = Append(@, [text |-> "Waiting ${delay}ms before retry...",
                                                     arg |-> h.delay])]
               ELSE BackoffFor([h EXCEPT !.attempt = @ + 1])

\* the awaited condition() settles, d ms after it was invoked
BackoffConditionSettles(outcome, d) ==
    /\ sw.pc = "condition"
    /\ sw.fn = "waitWithBackoff"
    /\ now' = now + d
    /\ sw' = BackoffBody(sw, outcome)
    /\ UNCHANGED <<serverVars, mockVars, req, ret, wfr, seen>>

\* the pause grown before it is made: delay = Math.min(...); await browser.pause(delay)
BackoffPauseElapsesGrowsFirst ==
    /\ sw.pc = "pause"
    /\ sw.fn = "waitWithBackoff"
    /\ LET delay == MathMin(sw.delay * sw.multiplier, sw.maxDelay)
       IN /\ now' = now + delay
          /\ sw' = BackoffFor([sw EXCEPT !.pauses = Append(@, delay),
                                         !.delay = delay,
                                         !.attempt = @ + 1])
    /\ UNCHANGED <<serverVars, mockVars, req, ret, wfr, seen>>

\* await browser.pause(delay) ends; delay = Math.min(delay * multiplier, maxDelay);
\* attempt++ and the loop test
BackoffPauseElapses ==
    /\ sw.pc = "pause"
    /\ sw.fn = "waitWithBackoff"
    /\ now' = now + sw.delay
    /\ sw' = BackoffFor([sw EXCEPT !.pauses = Append(@, sw.delay),
                                   !.delay = MathMin(sw.delay * sw.multiplier, sw.maxDelay),
                                   !.attempt = @ + 1])
    /\ UNCHANGED <<serverVars, mockVars, req, ret, wfr, seen>>

BackoffOptions ==
    {Merge(Merge(a, b), Merge(c, d)) :
        a \in Optional("maxAttempts", {0, 1, 3, 4}),
        b \in Optional("initialDelay", {1, 2, 5}),
        c \in Optional("maxDelay", {3, 4}),
        d \in Optional("multiplier", {1, 2, 3})}

NextBackoff ==
    \/ \E options \in BackoffOptions : waitWithBackoff(options)
    \/ \E outcome \in ConditionOutcomes, d \in 0..MaxConditionTime :
          BackoffConditionSettles(outcome, d)
    \/ BackoffPauseElapses

SpecBackoff == Init /\ [][NextBackoff]_vars

\* a condition's promise settles and a pause's timer fires
SpecBackoffLive ==
    /\ SpecBackoff
    /\ WF_vars(\E outcome \in ConditionOutcomes, d \in 0..MaxConditionTime :
                  BackoffConditionSettles(outcome, d))
    /\ WF_vars(BackoffPauseElapses)

\* conditions that return a value other than a truthy one: false and the
\* falsy values 0, '', null and undefined
FalsyOutcomes ==
    {Returns(False), Returns(Num(0)), Returns(Str(<<>>)), Returns(Null),
     Returns(Undefined)}

\* A test that waits, with either wait, on a condition returning such values.
NextFalsy ==
    \/ \E options \in {[timeout |-> 2, pollingInterval |-> 1],
                       [timeout |-> 3, pollingInterval |-> 2, ignoreExceptions |-> FALSE]} :
          fluentWait(options)
    \/ \E outcome \in FalsyOutcomes \cup {Throws(Error("e"))}, d \in 0..MaxConditionTime :
          FluentConditionSettles(outcome, d)
    \/ FluentPauseElapses
    \/ \E options \in {[maxAttempts |-> 2, initialDelay |-> 1],
                       [maxAttempts |-> 3, initialDelay |-> 1, maxDelay |-> 2]} :
          waitWithBackoff(options)
    \/ \E outcome \in FalsyOutcomes \cup {Throws(Error("e"))}, d \in 0..MaxConditionTime :
          BackoffConditionSettles(outcome, d)
    \/ BackoffPauseElapses

SpecFalsy == Init /\ [][NextFalsy]_vars

\* ---------------------------------------------------------- retryOperation
DEFAULT_MAX_RETRIES == 3
DEFAULT_RETRY_DELAY == 1000

\* for (...; attempt <= maxRetries; ...) { return await operation() ... } and,
\* past the loop, throw lastError || new Error('Retry operation failed')
RetryFor(f) ==
    IF f.attempt <= f.maxRetries
    THEN [f EXCEPT !.pc = "operation", !.calls = @ + 1, !.lastOutcome = Undefined]
    ELSE [f EXCEPT !.pc = "threw",
                   !.error = IF f.lastError # Undefined THEN f.lastError
                             ELSE Error("Retry operation failed")]

\* the frame of a retryOperation call: the destructured options, lastError and
\* attempt, and as history the options given and what the call did, in order
RetryFrame(options) ==
    [fn |-> "retryOperation", pc |-> "start", options |-> options,
     maxRetries |-> Default(options, "maxRetries", DEFAULT_MAX_RETRIES),
     retryDelay |-> Default(options, "retryDelay", DEFAULT_RETRY_DELAY),
     onRetry |-> Default(options, "onRetry", Undefined),
     lastError |-> Undefined, attempt |-> 1, console |-> <<>>,
     result |-> Undefined, error |-> Undefined,
     calls |-> 0, lastOutcome |-> Undefined, trace |-> <<>>]

\* retryOperation(operation, options) up to its first await
retryOperation(options) ==
    /\ sw.pc = "idle"
    /\ sw' = RetryFor(RetryFrame(options))
    /\ UNCHANGED <<serverVars, mockVars, req, ret, wfr, now, seen>>

\* the loop body with the observer called before the test for the last attempt
RetryBodyObservesLast(f, outcome) ==
    LET g == [f EXCEPT !.lastOutcome = outcome,
                       !.trace = Append(@, [e |-> "operation", attempt |-> f.attempt,
                                            outcome |-> outcome])]
    IN IF outcome.kind = "return"
       THEN [g EXCEPT !.pc = "returned", !.result = outcome.value]
       ELSE LET h == IF g.onRetry # Undefined
                     THEN [g EXCEPT !.trace = Append(@, [e |-> "onRetry",
                                                         attempt |-> g.attempt,
                                                         error |-> outcome.value])]
                     ELSE g
            IN IF h.attempt = h.maxRetries
               THEN [h EXCEPT !.pc = "threw", !.lastError = outcome.value,
                              !.error = outcome.value]
               ELSE [h EXCEPT !.pc = "pause", !.lastError = outcome.value,
                              !.console = Append(@, [text |-> "Operation failed on attempt ",
                                                     arg |-> <<h.attempt, h.maxRetries,
                                                               outcome.value.message>>])]

\* try { return await operation() } catch (error) { lastError = error;
\* if (attempt === maxRetries) throw error; console.log(...);
\* if (onRetry) onRetry(attempt, lastError); await browser.pause(retryDelay) }
RetryBody(f, outcome) ==
    LET g == [f EXCEPT !.lastOutcome = outcome,
                       !.trace = Append(@, [e |-> "operation", attempt |-> f.attempt,
                                            outcome |-> outcome])]
    IN IF outcome.kind = "return"
       THEN [g EXCEPT !.pc = "returned", !.result = outcome.value]
       ELSE IF g.attempt = g.maxRetries
       THEN [g EXCEPT !.pc = "threw", !.lastError = outcome.value,
                      !.error = outcome.value]
       ELSE [g EXCEPT !.pc = "pause", !.lastError = outcome.value,
                      !.console = Append(@, [text |-> "Operation failed on attempt ",
                                             arg |-> <<g.attempt, g.maxRetries,
                                                       outcome.value.message>>]),
                      !.trace = IF g.onRetry # Undefined
                                THEN Append(@, [e |-> "onRetry", attempt |-> g.attempt,
                                                error |-> outcome.value])
                                ELSE @]

\* the awaited operation() settles
OperationSettles(outcome) ==
    /\ sw.pc = "operation"
    /\ sw.fn = "retryOperation"
    /\ sw' = RetryBody(sw, outcome)
    /\ UNCHANGED <<serverVars, mockVars, req, ret, wfr, now, seen>>

\* await browser.pause(retryDelay) ends; attempt++ and the loop test
RetryPauseElapses ==
    /\ sw.pc = "pause"
    /\ sw.fn = "retryOperation"
    /\ now' = now + sw.retryDelay
    /\ sw' = RetryFor([sw EXCEPT !.attempt = @ + 1,
                                 !.trace = Append(@, [e |-> "pause", delay |-> sw.retryDelay])])
    /\ UNCHANGED <<serverVars, mockVars, req, ret, wfr, seen>>

RetryOptions ==
    {Merge(a, Merge(b, c)) :
        a \in Optional("maxRetries", {0, 1, 2, 4}),
        b \in Optional("retryDelay", {1}),
        c \in Optional("onRetry", {[t |-> "function"]})}

\* what an awaited operation() does: the value it resolves with or its error
OperationOutcomes ==
    {Returns(Str(<<"v">>)), Returns(False), Throws(Error("e")), Throws(Error("f"))}

NextRetry ==
    \/ \E options \in RetryOptions : retryOperation(options)
    \/ \E outcome \in OperationOutcomes : OperationSettles(outcome)
    \/ RetryPauseElapses

SpecRetry == Init /\ [][NextRetry]_vars

\* ------------------------------------------------- waitForAllElementsVisible
MaxSelectors == 2         \* selectors in the list given to one call
DEFAULT_INTERVAL == 500

\* what the driver reports for an element when it is asked: existing and
\* displayed, existing but not displayed, not existing, or the lookup throws
ElementReports == {"displayed", "hidden", "absent", "throws"}

\* the condition with the loop going through every selector and the last
\* selector's report deciding
AllElementsVisibleLast(reports) ==
    [value |-> reports = <<>> \/ reports[Len(reports)] = "displayed", asked |-> reports]

\* the condition given to browser.waitUntil: for (const selector of selectors)
\* { if (!existing || !displayed) return false } return true, with what it asked
AllElementsVisible(reports) ==
    IF \E k \in 1..Len(reports) : reports[k] # "displayed"
    THEN [value |-> FALSE,
          asked |-> SubSeq(reports, 1,
                       CHOOSE k \in 1..Len(reports) :
                          /\ reports[k] # "displayed"
                          /\ \A j \in 1..(k - 1) : reports[j] = "displayed")]
    ELSE [value |-> TRUE, asked |-> reports]

\* waitForAllElementsVisible(selectors, options) up to its await of waitUntil
waitForAllElementsVisible(selectors, options) ==
    /\ sw.pc = "idle"
    /\ sw' = [fn |-> "waitForAllElementsVisible", pc |-> "waitUntil",
              options |-> options, selectors |-> selectors,
              timeout |-> Default(options, "timeout", DEFAULT_TIMEOUT),
              timeoutMsg |-> Default(options, "timeoutMsg",
                                [template |-> "Not all elements visible within ${timeout}ms",
                                 timeout |-> Default(options, "timeout", DEFAULT_TIMEOUT)]),
              interval |-> DEFAULT_INTERVAL, startTime |-> now,
              console |-> <<>>, result |-> Undefined, ticks |-> 0, lastTick |-> <<>>,
              everVisible |-> {}, timedOut |-> FALSE]
    /\ UNCHANGED <<serverVars, mockVars, req, ret, wfr, now, seen>>

\* one poll of browser.waitUntil: the condition runs over the elements as the
\* driver reports them now; true resolves waitUntil (return true); otherwise the
\* next poll is interval ms later, unless the timeout has then passed, which
\* rejects waitUntil (catch: log and return false)
WaitUntilPolls(reports) ==
    /\ sw.pc = "waitUntil"
    /\ sw.fn = "waitForAllElementsVisible"
    /\ Len(reports) = Len(sw.selectors)
    /\ LET outcome == AllElementsVisible(reports)
           f == [sw EXCEPT !.ticks = @ + 1, !.lastTick = outcome.asked,
                           !.everVisible = @ \cup {k \in 1..Len(reports) :
                                                      reports[k] = "displayed"}]
       IN IF outcome.value
          THEN /\ sw' = [f EXCEPT !.pc = "returned", !.result = TRUE]
               /\ UNCHANGED now
          ELSE /\ now' = now + sw.interval
               /\ sw' = IF now' - sw.startTime >= sw.timeout
                        THEN [f EXCEPT !.pc = "returned", !.result = FALSE, !.timedOut = TRUE,
                                       !.console = Append(@, [text |-> "Wait failed: ",
                                                              arg |-> sw.timeoutMsg])]
                        ELSE f
    /\ UNCHANGED <<serverVars, mockVars, req, ret, wfr, seen>>

NextElements ==
    \/ \E n \in 0..MaxSelectors, options \in Optional("timeout", {1000, 1500}) :
          waitForAllElementsVisible([k \in 1..n |-> k], options)
    \/ \E n \in 0..MaxSelectors : \E reports \in [1..n -> ElementReports] :
          WaitUntilPolls(reports)

SpecElements == Init /\ [][NextElements]_vars

\* ================================================================== claims
Min(S) == CHOOSE x \in S : \A y \in S : x <= y

\* the handler of request i has looked for a route (0: none found)
Matched(i) == "route" \in DOMAIN req[i]

TableIds(table, method) ==
    IF method \in DOMAIN table
    THEN {table[method][k] : k \in 1..Len(table[method])}
    ELSE {}

InTable(id) == \E m \in DOMAIN mockRoutes : id \in TableIds(mockRoutes, m)

\* the routes that, when request i was matched, were registered for its method,
\* not exhausted and matching its path
LiveMatching(i) ==
    {id \in TableIds(seen[i].mockRoutes, req[i].request.method) :
        /\ seen[i].routeObjs[id].times # Num(0)
        /\ PathMatches(seen[i].routeObjs[id].path, req[i].request.url)}

\* C1 (sequential requests): the route chosen for a request is the
\* earliest-registered route of its method that is not exhausted and whose path
\* matches, and none is chosen only when there is none; so when the first two
\* such routes are R1 (times: 1) and R2 (unbounded), this request is answered by
\* R1 and every later request for the same method and url by R2.
C1_FirstMatchWins ==
    /\ \A i \in 1..MaxRequests : Matched(i) =>
          IF LiveMatching(i) = {} THEN req[i].route = 0
          ELSE req[i].route = Min(LiveMatching(i))
    /\ \A i, j \in 1..MaxRequests :
          (/\ i < j /\ Matched(i) /\ Matched(j)
           /\ req[j].request.method = req[i].request.method
           /\ req[j].request.url = req[i].request.url
           /\ Cardinality(LiveMatching(i)) >= 2)
          => LET R1 == Min(LiveMatching(i))
                 R2 == Min(LiveMatching(i) \ {R1})
             IN (seen[i].routeObjs[R1].times = Num(1)
                 /\ seen[i].routeObjs[R2].times = Undefined)
                => req[i].route = R1 /\ req[j].route = R2

\* R1 (times: 1) then R2 (unbounded) for GET /x; three requests answered R1, R2, R2
C1_Witness ==
    /\ Len(routeObjs) >= 2
    /\ routeObjs[1].registered = Num(1) /\ routeObjs[2].registered = Undefined
    /\ routeObjs[1].method = routeObjs[2].method /\ routeObjs[1].path = routeObjs[2].path
    /\ \A i \in 1..3 : req[i].pc = "done"
    /\ req[1].route = 1 /\ req[2].route = 2 /\ req[3].route = 2
    /\ req[1].status = 200 /\ req[2].status = 500

\* the response a route is configured to give to a request
Configured(route, request) ==
    IF route.response.type = "function"
    THEN Responder(route.response.value, request)
    ELSE route.response.value

\* the requests that were matched after route id was registered and that it matches
Concerns(id, i) ==
    /\ Matched(i)
    /\ id <= Len(seen[i].routeObjs)
    /\ req[i].request.method = routeObjs[id].method
    /\ PathMatches(routeObjs[id].path, req[i].request.url)

Served(id) == {i \in 1..MaxRequests : req[i].pc = "done" /\ req[i].route = id}

\* C2 (sequential requests): a route registered with times: N >= 1, no other
\* registered route matching its requests, answers the first N matching requests
\* with its configured status and body and every later one gets 404; it is in
\* the route table until its N-th response has been sent and not after.
C2_LimitedUse ==
    \A id \in 1..Len(routeObjs) :
        LET route == routeObjs[id]
            mine == {i \in 1..MaxRequests : Concerns(id, i)}
            alone == \A other \in 1..Len(routeObjs), i \in mine :
                        other # id =>
                           ~(/\ routeObjs[other].method = req[i].request.method
                             /\ PathMatches(routeObjs[other].path, req[i].request.url))
        IN (route.registered # Undefined /\ route.registered.n >= 1 /\ alone) =>
              /\ \A i \in mine :
                    IF Cardinality({j \in mine : j <= i}) <= route.registered.n
                    THEN /\ req[i].route = id
                         /\ req[i].pc = "done" =>
                               LET response == Configured(route, req[i].request)
                               IN /\ req[i].status = response.status.n
                                  /\ req[i].resBody =
                                        IF IsString(response.body) THEN response.body
                                        ELSE [json |-> response.body]
                    ELSE /\ req[i].route = 0
                         /\ req[i].status = 404
              /\ InTable(id) <=> Cardinality(Served(id)) < route.registered.n

\* GET /x with times: 2 alone: two configured responses, then 404, route removed
C2_Witness ==
    /\ Len(routeObjs) = 1
    /\ routeObjs[1].registered = Num(2)
    /\ \A i \in 1..3 : req[i].pc = "done" /\ req[i].request.method = GET
    /\ req[1].route = 1 /\ req[2].route = 1 /\ req[3].route = 0
    /\ req[2].status = 200 /\ req[3].status = 404
    /\ ~InTable(1)

\* C3: under every interleaving of concurrently handled requests a route
\* registered with times: N sends at most N responses.
C3_AtMostNResponses ==
    \A id \in 1..Len(routeObjs) :
        routeObjs[id].registered # Undefined =>
            Cardinality(Served(id)) <= routeObjs[id].registered.n

Received(i) ==
    [method |-> req[i].method, url |-> req[i].url, headers |-> req[i].headers,
     body |-> req[i].body]

\* C4: the turn that handles a request whose body has been read appends exactly
\* one entry to the request log, holding the method and url as received,
\* whatever the request interceptors do (rewrite, throw) and whether or not a
\* route matches; a request answered with 404 is then found by findRequests for
\* its method.
C4_LoggedBeforeIntercepting ==
    [][\A i \in 1..MaxRequests :
          (req[i].pc = "body" /\ req'[i].pc # "body") =>
             LET entry == requestLogs'[Len(requestLogs')]
                 found == SelectSeq(requestLogs',
                                    LAMBDA log : LogMatches([method |-> Str(req[i].method)], log))
             IN /\ Len(requestLogs') = Len(requestLogs) + 1
                /\ SubSeq(requestLogs', 1, Len(requestLogs)) = requestLogs
                /\ entry.method = req[i].method
                /\ entry.url = req[i].url
                /\ (req'[i].pc = "done" /\ req'[i].status = 404) =>
                      \E k \in 1..Len(found) : found[k] = entry]_vars

\* a request whose url an interceptor rewrote got 404 and is logged as received;
\* a request whose interceptor threw is logged too
C4_Witness ==
    /\ \E i \in 1..MaxRequests :
          /\ req[i].pc = "done" /\ req[i].status = 404
          /\ req[i].request.url # req[i].url
          /\ \E k \in 1..Len(requestLogs) : requestLogs[k].url = req[i].url

RECURSIVE RequestChain(_, _)
\* the request a chain of request interceptors produces, by its last interceptor
RequestChain(chain, request) ==
    IF chain = <<>> THEN request
    ELSE LET before == RequestChain(SubSeq(chain, 1, Len(chain) - 1), request)
             out == IF before = Thrown THEN Thrown
                    ELSE RequestInterceptor(chain[Len(chain)], before)
         IN IF out = Thrown THEN Thrown
            ELSE IF out = Null THEN before
            ELSE Merge(before, out)

RECURSIVE ResponseChain(_, _)
\* the response a chain of response interceptors produces, by its last interceptor
ResponseChain(chain, response) ==
    IF chain = <<>> THEN response
    ELSE LET before == ResponseChain(SubSeq(chain, 1, Len(chain) - 1), response)
             out == IF before = Thrown THEN Thrown
                    ELSE ResponseInterceptor(chain[Len(chain)], before)
         IN IF out = Thrown THEN Thrown
            ELSE IF out = Null THEN before
            ELSE Merge(before, out)

\* C6: the request matched, and given to the responder, is what the request
\* interceptors registered when it was handled produce applied in registration
\* order, each to the output of the one before, null leaving it unchanged; and
\* the response sent is what the response interceptors registered when it was
\* sent produce in the same way from the route's response.
C6_ChainOrder ==
    \A i \in 1..MaxRequests :
        /\ seen[i] # Undefined =>
              LET expected == RequestChain(seen[i].chain, Received(i))
              IN IF expected = Thrown THEN req[i].pc = "failed" /\ ~Matched(i)
                 ELSE /\ Matched(i)
                      /\ req[i].request = expected
                      /\ (/\ req[i].pc = "done" /\ req[i].route # 0
                          /\ routeObjs[req[i].route].response.type = "function")
                         => req[i].initial.body = [received |-> expected]
        /\ (req[i].pc = "done" /\ req[i].route # 0) =>
              LET sent == ResponseChain(req[i].chain, req[i].initial)
              IN /\ req[i].status = sent.status.n
                 /\ req[i].resHeaders = sent.headers
                 /\ req[i].resBody = IF IsString(sent.body) THEN sent.body
                                     ELSE [json |-> sent.body]

\* interceptors setX then appendX: the responder saw header X = 1,2
C6_Witness ==
    \E i \in 1..MaxRequests :
        /\ req[i].pc = "done" /\ req[i].route # 0
        /\ seen[i].chain = <<"setX", "appendX">>
        /\ req[i].resBody.json.received.headers.X = <<1, 2>>

\* what the criteria of a request query ask of a log entry
Satisfies(criteria, log) ==
    /\ "method" \in DOMAIN criteria => log.method = criteria.method.s
    /\ "urlPattern" \in DOMAIN criteria =>
          IF criteria.urlPattern.t = "string"
          THEN Includes(log.url, criteria.urlPattern.s)
          ELSE RegExpTest(criteria.urlPattern, log.url)
    /\ "bodyContains" \in DOMAIN criteria =>
          IsString(log.body) /\ Includes(log.body.s, criteria.bodyContains.s)

\* C7: findRequests(criteria) returns exactly the log entries, in log order,
\* that satisfy every criterion present; an entry failing one is not returned.
C7_ExactFilter ==
    ret.findRequests # Undefined =>
        ret.findRequests.result =
            SelectSeq(ret.findRequests.logs,
                      LAMBDA log : Satisfies(ret.findRequests.criteria, log))

\* C8: waitForRequest returns the most recently logged entry that satisfies the
\* criteria, found by a poll made before the timeout, and otherwise throws an
\* error naming the timeout and the criteria.
C8_MostRecentMatch ==
    /\ wfr.pc = "returned" =>
          LET matching == SelectSeq(wfr.logs, LAMBDA log : Satisfies(wfr.criteria, log))
          IN /\ Len(matching) > 0
             /\ wfr.result = matching[Len(matching)]
    /\ wfr.pc = "threw" =>
          /\ wfr.error.timeout = wfr.timeout
          /\ wfr.error.criteria = wfr.criteria
          /\ now - wfr.startTime >= wfr.timeout

\* C9: startMockServer called while the server is listening leaves the
\* listener, the recorded address, the routes, the interceptors, the log and
\* the requests in flight as they are, and returns the address the listener is
\* bound to, whatever host and port the call names.
C9_StartWhileListening ==
    [][(IsListening /\ \E config \in Configs : StartMockServer(config)) =>
          /\ UNCHANGED <<serverVars, mockVars, req>>
          /\ ret'.startMockServer = Str(Url(mockServer.host, mockServer.port))]_vars

\* a second start naming port 8081 returned the address of the listener on 8080,
\* with a route registered and a request logged
C9_Witness ==
    /\ IsListening /\ mockServer.port = 8080
    /\ ret.config.port = 8081
    /\ ret.startMockServer = Str(Url("localhost", 8080))
    /\ Len(routeObjs) > 0 /\ Len(requestLogs) > 0 /\ Len(requestInterceptors) > 0

\* C10: reset() empties the route table, the request log and both interceptor
\* chains in one step and leaves the server as it is; a listening server goes
\* on listening and finds no route for any request, so it answers 404.
C10_ResetKeepsServer ==
    /\ [][reset =>
            /\ mockRoutes' = <<>> /\ requestLogs' = <<>>
            /\ requestInterceptors' = <<>> /\ responseInterceptors' = <<>>
            /\ UNCHANGED <<serverVars, req>>
            /\ IsListening => IsListening'
            /\ \A r \in LifeRequests : (findMatchingRoute(r[1], r[2]))' = 0]_vars
    /\ [](\A i \in 1..MaxRequests :
            (Matched(i) /\ seen[i].mockRoutes = <<>>) =>
                req[i].pc = "done" /\ req[i].status = 404)

\* after a route and interceptors were registered and then reset, the listening
\* server answered a request with 404
C10_Witness ==
    /\ IsListening
    /\ mockRoutes = <<>> /\ requestInterceptors = <<>> /\ responseInterceptors = <<>>
    /\ \E i \in 1..MaxRequests :
          /\ req[i].pc = "done" /\ req[i].status = 404
          /\ Len(seen[i].routeObjs) > 0 /\ seen[i].mockRoutes = <<>>
          /\ seen[i].chain = <<>>

\* C11: in the turn in which cleanup() completes the server is stopped
\* (isMockServerRunning() is false) and the route table, both interceptor chains
\* and the request log are empty, whatever requests were in flight.
C11_CleanupLeavesNothing ==
    [][(ret.cleanup # Resolved /\ ret'.cleanup = Resolved) =>
          /\ ~isMockServerRunning'
          /\ mockRoutes' = <<>>
          /\ requestInterceptors' = <<>>
          /\ responseInterceptors' = <<>>
          /\ requestLogs' = <<>>]_vars

\* what the handler of a suspended request will send if nothing else happens:
\* the route's response (the responder's, for a function route) through the
\* response interceptors registered now
Pending(i) ==
    LET r == req[i]
        mockResponse == IF r.pc = "delay" THEN r.mockResponse
                        ELSE Responder(routeObjs[r.route].response.value, r.request)
    IN IF mockResponse = Thrown THEN Thrown
       ELSE LET status == Field(mockResponse, "status")
                headers == Field(mockResponse, "headers")
                sent == ResponseChain(responseInterceptors,
                           [status |-> IF Truthy(status) THEN status ELSE Num(200),
                            headers |-> IF Truthy(headers) THEN headers
                                        ELSE [ContentType |-> "application/json"],
                            body |-> Field(mockResponse, "body"),
                            request |-> [method |-> r.request.method,
                                         url |-> r.request.url]])
            IN IF sent = Thrown THEN Thrown
               ELSE [status |-> sent.status, headers |-> sent.headers, body |-> sent.body]

\* C12: a reset() that runs while a request is suspended after its route was
\* matched (awaiting the responder or the delay) does not change the status,
\* headers and body that request is going to be answered with.
C12_ResetKeepsInFlightResponse ==
    [][reset => \A i \in 1..MaxRequests :
                   req[i].pc \in {"responder", "delay"} => Pending(i)' = Pending(i)]_vars

\* ------------------------------------------------------------- fluentWait
InFluentWait == sw.pc # "idle" /\ sw.fn = "fluentWait"

\* the condition's latest invocation has settled, and how
Settled == InFluentWait /\ "kind" \in DOMAIN sw.lastOutcome
Satisfied(outcome) == outcome.kind = "return" /\ outcome.value # False

\* C13: with timeout T > 0 and pollingInterval I > 0 the condition is never
\* invoked once the time since the first check has reached T; and while the
\* condition has only ever returned false the call does not throw, and when it
\* returns it returns the timeout outcome null, at an elapsed time of at least T
\* and, the condition taking no time, of less than T + I.
C13_TimeoutBounds ==
    (InFluentWait /\ sw.timeout > 0 /\ sw.pollingInterval > 0) =>
        /\ sw.calls > 0 => sw.lastCall < sw.timeout
        /\ sw.unsatisfied =>
              /\ sw.pc # "threw"
              /\ sw.pc = "returned" =>
                    /\ sw.timedOut
                    /\ sw.result = Null
                    /\ sw.endAt >= sw.timeout
                    /\ sw.conditionTime = 0 => sw.endAt < sw.timeout + sw.pollingInterval

\* timeout 3, interval 2: false at 0 and at 2, the timeout outcome at 4
C13_Witness ==
    /\ InFluentWait
    /\ sw.timeout = 3 /\ sw.pollingInterval = 2
    /\ sw.unsatisfied /\ sw.conditionTime = 0
    /\ sw.pc = "returned" /\ sw.timedOut
    /\ sw.calls = 2 /\ sw.endAt = 4

\* C14 (as stated): when fluentWait runs out of its time budget it produces a
\* TimeoutError that carries the caller-supplied timeout message.
C14_TimeoutError ==
    (InFluentWait /\ sw.timedOut) =>
        /\ sw.pc = "threw"
        /\ sw.error = [t |-> "error", name |-> "TimeoutError",
                       message |-> sw.timeoutMsg]

\* C14 (amended): when fluentWait runs out of its time budget it throws nothing:
\* it returns null, having logged "Fluent wait timeout: " with the timeout
\* message the caller supplied or, if none, "Condition not met within <timeout>ms".
C14_TimeoutSignal ==
    (InFluentWait /\ sw.timedOut) =>
        /\ sw.pc = "returned"
        /\ sw.result = Null
        /\ sw.error = Undefined
        /\ sw.console # <<>>
        /\ sw.console[Len(sw.console)] =
              [text |-> "Fluent wait timeout: ",
               arg |-> IF "timeoutMsg" \in DOMAIN sw.options THEN sw.options.timeoutMsg
                       ELSE [template |-> "Condition not met within ${timeout}ms",
                             timeout |-> sw.timeout]]

\* a caller's message, the budget run out after some polling
C14_Witness ==
    /\ InFluentWait
    /\ sw.timedOut
    /\ "timeoutMsg" \in DOMAIN sw.options
    /\ sw.calls >= 2

\* C15: once the condition has returned a satisfied value (anything but false)
\* on its k-th invocation, fluentWait has returned that value, after exactly k
\* invocations and k-1 pauses, without waiting for the rest of the timeout: the
\* condition taking no time, (k-1) * pollingInterval after the start.
C15_EarlySuccess ==
    (Settled /\ Satisfied(sw.lastOutcome)) =>
        /\ sw.pc = "returned"
        /\ ~sw.timedOut
        /\ sw.result = sw.lastOutcome.value
        /\ sw.pauses = sw.calls - 1
        /\ sw.lastCall < sw.timeout
        /\ sw.conditionTime = 0 =>
              /\ sw.endAt = (sw.calls - 1) * sw.pollingInterval
              /\ now = sw.startTime + sw.endAt

\* the falsy value 0 on the third invocation of a 15000 ms wait
C15_Witness ==
    /\ Settled
    /\ sw.lastOutcome = Returns(Num(0))
    /\ sw.calls = 3
    /\ sw.timeout = DEFAULT_TIMEOUT
    /\ sw.pc = "returned"

\* C16: with ignoreExceptions given as false an exception of the condition is
\* thrown to the caller by the turn in which it arrives (the call is over: no
\* further invocation); given as true it is logged and polling goes on like after
\* a not-yet-satisfied result, the call ending in a success or the timeout.
C16_IgnoreExceptions ==
    /\ (Settled /\ sw.lastOutcome.kind = "throw" /\ "ignoreExceptions" \in DOMAIN sw.options) =>
          IF sw.options.ignoreExceptions
          THEN /\ sw.pc = "pause" \/ (sw.pc = "returned" /\ sw.timedOut)
               /\ sw.error = Undefined
               /\ \E k \in 1..Len(sw.console) :
                     sw.console[k] = [text |-> "Exception ignored during fluent wait: ",
                                      arg |-> sw.lastOutcome.value.message]
          ELSE /\ sw.pc = "threw"
               /\ sw.error = sw.lastOutcome.value
               /\ sw.pauses = sw.calls - 1
    /\ (InFluentWait /\ sw.pc = "threw") =>
          /\ ~sw.ignoreExceptions
          /\ Settled /\ sw.lastOutcome.kind = "throw"

\* ignoreExceptions: true, an exception on the first invocation, a value later
C16_Witness ==
    /\ InFluentWait
    /\ "ignoreExceptions" \in DOMAIN sw.options /\ sw.options.ignoreExceptions
    /\ sw.console # <<>>
    /\ sw.console[1].text = "Exception ignored during fluent wait: "
    /\ sw.pc = "returned" /\ ~sw.timedOut
    /\ sw.calls >= 2

\* C17: when the caller does not set ignoreExceptions, an exception of the
\* condition is propagated at once instead of being absorbed and retried.
C17_FailFastByDefault ==
    (Settled /\ sw.lastOutcome.kind = "throw" /\ "ignoreExceptions" \notin DOMAIN sw.options) =>
        /\ sw.pc = "threw"
        /\ sw.error = sw.lastOutcome.value

\* -------------------------------------------------------- waitWithBackoff
InBackoff == sw.pc # "idle" /\ sw.fn = "waitWithBackoff"

RECURSIVE Pow(_, _)
Pow(b, e) == IF e = 0 THEN 1 ELSE b * Pow(b, e - 1)

\* the pause made immediately before attempt k >= 2
PauseBefore(k) == sw.pauses[k - 1]

\* C18 (as stated): there is no pause before attempt 1, and for every k >= 2 the
\* pause made immediately before attempt k is
\* min(initialDelay * multiplier^(k-1), maxDelay).
C18_PauseBeforeAttempt ==
    (InBackoff /\ sw.calls >= 1) =>
        /\ Len(sw.pauses) = sw.calls - 1
        /\ \A k \in 2..sw.calls :
              PauseBefore(k) = MathMin(sw.initialDelay * Pow(sw.multiplier, k - 1),
                                       sw.maxDelay)

\* C18 (amended): there is no pause before attempt 1; the pause before attempt 2
\* is initialDelay itself, whatever maxDelay is; and for every k >= 3 the pause
\* before attempt k is min(initialDelay * multiplier^(k-2), maxDelay).
C18_PauseSchedule ==
    (InBackoff /\ sw.calls >= 1) =>
        /\ Len(sw.pauses) = sw.calls - 1
        /\ sw.calls >= 2 => PauseBefore(2) = sw.initialDelay
        /\ \A k \in 3..sw.calls :
              PauseBefore(k) = MathMin(sw.initialDelay * Pow(sw.multiplier, k - 2),
                                       sw.maxDelay)

\* initialDelay 1, multiplier 2, maxDelay 3: pauses 1, 2, 3 before attempts 2, 3, 4
C18_Witness ==
    /\ InBackoff
    /\ sw.calls = 4
    /\ sw.initialDelay = 1 /\ sw.multiplier = 2 /\ sw.maxDelay = 3
    /\ sw.pauses = <<1, 2, 3>>

\* C19: with multiplier > 1, for any initialDelay and maxDelay, the pauses
\* between attempts are non-decreasing and none is longer than maxDelay.
C19_Monotone ==
    (InBackoff /\ sw.multiplier > 1) =>
        /\ \A k \in 1..Len(sw.pauses) : sw.pauses[k] <= sw.maxDelay
        /\ \A k \in 1..(Len(sw.pauses) - 1) : sw.pauses[k] <= sw.pauses[k + 1]

\* the condition's latest invocation has settled, and how
BackoffSettled == InBackoff /\ "kind" \in DOMAIN sw.lastOutcome

\* C20: waitWithBackoff always terminates; it never throws; it invokes the
\* condition at most maxAttempts times; a satisfied value is returned at once,
\* without another attempt; and maxAttempts attempts none of which was satisfied
\* (false or an exception) are followed by the return of null.
C20_Terminates ==
    /\ [](InBackoff =>
             /\ sw.pc # "threw" /\ sw.error = Undefined
             /\ sw.calls <= IF sw.maxAttempts > 0 THEN sw.maxAttempts ELSE 0
             /\ sw.attempt = IF sw.pc = "returned" /\ sw.exhausted
                             THEN sw.calls + 1 ELSE sw.calls
             /\ sw.pc = "returned" =>
                   IF sw.exhausted
                   THEN /\ sw.result = Null
                        /\ sw.calls >= 1 => BackoffSettled /\ ~Satisfied(sw.lastOutcome)
                   ELSE /\ BackoffSettled /\ Satisfied(sw.lastOutcome)
                        /\ sw.result = sw.lastOutcome.value
             /\ (BackoffSettled /\ Satisfied(sw.lastOutcome)) =>
                   sw.pc = "returned" /\ ~sw.exhausted
             /\ (BackoffSettled /\ ~Satisfied(sw.lastOutcome)
                    /\ sw.calls >= sw.maxAttempts) =>
                   sw.pc = "returned" /\ sw.exhausted /\ sw.result = Null)
    /\ InBackoff ~> (sw.pc = "returned")

\* three attempts, the last one throwing: null returned
C20_Witness ==
    /\ InBackoff
    /\ sw.maxAttempts = 3 /\ sw.calls = 3
    /\ sw.lastOutcome = Throws(Error("e"))
    /\ sw.pc = "returned" /\ sw.exhausted /\ sw.result = Null

\* --------------------------------------------------------- retryOperation
InRetry == sw.pc # "idle" /\ sw.fn = "retryOperation"

\* what the operation did on each of its invocations, in order
Operations == SelectSeq(sw.trace, LAMBDA ev : ev.e = "operation")

\* the calls of the onRetry observer, in order
Observed == SelectSeq(sw.trace, LAMBDA ev : ev.e = "onRetry")

\* C21: when retryOperation throws, the operation has thrown on each of exactly
\* maxRetries invocations and the error thrown is the one its last invocation
\* threw, unwrapped; when the operation succeeds on invocation j <= maxRetries,
\* that invocation's value is returned after exactly j invocations.
C21_RethrowsLastError ==
    InRetry =>
        /\ sw.pc = "threw" =>
              /\ sw.calls = sw.maxRetries
              /\ Len(Operations) = sw.maxRetries
              /\ \A k \in 1..Len(Operations) : Operations[k].outcome.kind = "throw"
              /\ Operations # <<>>
              /\ sw.error = Operations[Len(Operations)].outcome.value
        /\ \A j \in 1..Len(Operations) :
              Operations[j].outcome.kind = "return" =>
                 /\ j <= sw.maxRetries
                 /\ sw.pc = "returned"
                 /\ sw.result = Operations[j].outcome.value
                 /\ sw.calls = j /\ Len(Operations) = j

\* the call has thrown after a final failed attempt
Exhausted == InRetry /\ sw.pc = "threw" /\ sw.calls >= 1

\* C22: every onRetry call directly follows a failed attempt that is not the
\* last one allowed, with that attempt's number and error, and is directly
\* followed by the retry pause (then the next attempt); every such attempt is
\* followed by one when an observer is given; none follows a success or the
\* final failed attempt; on exhaustion the observer has been called exactly
\* maxRetries - 1 times, with the attempt numbers 1..maxRetries-1 in order.
C22_OnRetry ==
    InRetry =>
        /\ \A j \in 1..Len(sw.trace) :
              sw.trace[j].e = "onRetry" =>
                 /\ j > 1
                 /\ sw.trace[j - 1].e = "operation"
                 /\ sw.trace[j - 1].outcome = Throws(sw.trace[j].error)
                 /\ sw.trace[j - 1].attempt = sw.trace[j].attempt
                 /\ sw.trace[j].attempt < sw.maxRetries
                 /\ j < Len(sw.trace) => sw.trace[j + 1].e = "pause"
                 /\ j + 1 < Len(sw.trace) =>
                       /\ sw.trace[j + 2].e = "operation"
                       /\ sw.trace[j + 2].attempt = sw.trace[j].attempt + 1
        /\ \A j \in 1..Len(sw.trace) :
              (/\ sw.trace[j].e = "operation"
               /\ sw.trace[j].outcome.kind = "throw"
               /\ sw.trace[j].attempt < sw.maxRetries
               /\ "onRetry" \in DOMAIN sw.options) =>
                 /\ j < Len(sw.trace)
                 /\ sw.trace[j + 1].e = "onRetry"
        /\ (Exhausted /\ "onRetry" \in DOMAIN sw.options) =>
              /\ Len(Observed) = sw.maxRetries - 1
              /\ \A k \in 1..Len(Observed) : Observed[k].attempt = k
        /\ "onRetry" \notin DOMAIN sw.options => Observed = <<>>

\* four attempts that all fail: the observer called for attempts 1, 2, 3
C22_Witness ==
    /\ Exhausted
    /\ sw.maxRetries = 4
    /\ Len(Observed) = 3
    /\ Observed[1].error = Error("e") /\ Observed[2].error = Error("f")

\* C27: whenever retryOperation fails, the error it throws is one the operation
\* itself threw and the operation has been invoked at least once (the throw
\* after the loop is never reached), for every value of maxRetries.
C27_ThrowsOperationError ==
    (InRetry /\ sw.pc = "threw") =>
        /\ sw.calls >= 1
        /\ \E k \in 1..Len(Operations) : Operations[k].outcome = Throws(sw.error)
        /\ sw.error # Error("Retry operation failed")

\* ---------------------------------------------------------- route matching
\* the request the handler of request i matched: what the request interceptors
\* registered then make of the request received
Sought(i) == RequestChain(seen[i].chain, Received(i))

\* C23 (as stated): a route answers a request only if their methods are equal
\* and, for a string path, the URL without its query string equals the route
\* path or the route path ends in '/' and is a prefix of it, for a pattern, the
\* pattern matches the full URL; method and URL being those the request
\* interceptor chain produced.
C23_MatchOnlyIf ==
    \A i \in 1..MaxRequests :
        (Matched(i) /\ req[i].route # 0) =>
            LET route == seen[i].routeObjs[req[i].route]
                urlPath == SplitQuery(Sought(i).url)
            IN /\ route.method = Sought(i).method
               /\ IF route.path.t = "string"
                  THEN \/ urlPath = route.path.s
                       \/ /\ route.path.s[Len(route.path.s)] = "/"
                          /\ SubSeq(urlPath, 1, Len(route.path.s)) = route.path.s
                  ELSE Includes(Sought(i).url, route.path.s)

\* the part of a route path before its first '?'
RoutePath(path) ==
    IF \E k \in 1..Len(path) : path[k] = "?"
    THEN SubSeq(path, 1, Min({k \in 1..Len(path) : path[k] = "?"}) - 1)
    ELSE path

\* C23 (amended): as stated, with the route path taken without its own query
\* string: the URL without its query string equals the route path without its
\* query string, or that ends in '/' and is a prefix of it.
C23_MatchOnlyIfPath ==
    \A i \in 1..MaxRequests :
        (Matched(i) /\ req[i].route # 0) =>
            LET route == seen[i].routeObjs[req[i].route]
                urlPath == SplitQuery(Sought(i).url)
            IN /\ route.method = Sought(i).method
               /\ IF route.path.t = "string"
                  THEN LET routePath == RoutePath(route.path.s)
                       IN \/ urlPath = routePath
                          \/ /\ routePath # <<>>
                             /\ routePath[Len(routePath)] = "/"
                             /\ Len(routePath) <= Len(urlPath)
                             /\ SubSeq(urlPath, 1, Len(routePath)) = routePath
                  ELSE Includes(Sought(i).url, route.path.s)

\* GET /v1?b, rewritten to /v2?b, answered by the route with the path '/v2?a'
C23_Witness ==
    \E i \in 1..MaxRequests :
        /\ req[i].pc = "done" /\ req[i].route # 0
        /\ req[i].url = PathV1 \o <<"?", "b">>
        /\ seen[i].chain = <<"rewrite">>
        /\ seen[i].routeObjs[req[i].route].path = Str(PathV2 \o <<"?", "a">>)

\* ------------------------------------------------------ network conditions
\* the interceptor of simulateNetworkConditions({offline: true}) is installed
Offline == \E k \in 1..Len(responseInterceptors) : responseInterceptors[k] = "offline"

\* C24: every response the server sends while the offline interceptor is
\* installed (after simulateNetworkConditions({offline: true}) and until the
\* interceptors are cleared) has status 503, for every request.
C24_Offline503 ==
    [][\A i \in 1..MaxRequests :
          (Offline /\ req[i].pc # "done" /\ req'[i].pc = "done") =>
              req'[i].status = 503]_vars

\* ------------------------------------------------ waitForAllElementsVisible
InElements == sw.pc # "idle" /\ sw.fn = "waitForAllElementsVisible"

\* C25: waitForAllElementsVisible returns true only if in its latest poll,
\* within that one poll, every selector of the list was reported existing and
\* displayed; selectors reported visible only in different polls do not make it
\* true; and when the timeout passes the result is false.
C25_AllOnOneTick ==
    (InElements /\ sw.pc = "returned") =>
        /\ sw.result = TRUE =>
              /\ ~sw.timedOut
              /\ Len(sw.lastTick) = Len(sw.selectors)
              /\ \A k \in 1..Len(sw.selectors) : sw.lastTick[k] = "displayed"
        /\ sw.result = FALSE <=> sw.timedOut
        /\ sw.timedOut =>
              /\ now - sw.startTime >= sw.timeout
              /\ \E k \in 1..Len(sw.lastTick) : sw.lastTick[k] # "displayed"

\* two selectors, each visible at some poll but never both at one:
\* false at the timeout
C25_Witness ==
    /\ InElements
    /\ Len(sw.selectors) = 2
    /\ sw.everVisible = {1, 2}
    /\ sw.pc = "returned" /\ sw.result = FALSE /\ sw.timedOut

\* ------------------------------------------------------------ request log
\* C26: the request log is append-only: whatever is done (request handling,
\* route and interceptor registration, findRequests, getRequestLogs, the two
\* asserts, waitForRequest), the entries it holds stay, in place and unaltered;
\* it shrinks only through clearRequestLogs, reset or cleanup.
C26_AppendOnly ==
    [][\/ /\ Len(requestLogs') >= Len(requestLogs)
          /\ SubSeq(requestLogs', 1, Len(requestLogs)) = requestLogs
       \/ /\ requestLogs' = <<>>
          /\ clearRequestLogs \/ reset \/ cleanup]_vars

\* the log read when it had one entry, then queried, asserted on and waited on,
\* has grown to two entries with the first one as it was
C26_Witness ==
    /\ Len(requestLogs) = 2
    /\ ret.getRequestLogs # Undefined
    /\ Len(ret.getRequestLogs.returned) = 1
    /\ requestLogs[1] = ret.getRequestLogs.returned[1]
    /\ ret.findRequests # Undefined
    /\ ret.assert # Undefined
    /\ wfr.pc = "returned"

\* ------------------------------------------------- falsy condition results
GaveUp == IF sw.fn = "fluentWait" THEN sw.timedOut ELSE sw.exhausted

\* C28: in fluentWait and waitWithBackoff, once the condition has returned a
\* value other than exactly false (0, '', null and undefined included) the wait
\* has ended, without a further invocation or pause, returning that very value
\* and not as a timeout or an exhaustion; only a returned false leaves the wait
\* going (pausing, or giving up with null when time or attempts have run out).
C28_OnlyFalseWaits ==
    (/\ InFluentWait \/ InBackoff
     /\ sw.lastOutcome # Undefined
     /\ sw.lastOutcome.kind = "return")
        => IF sw.lastOutcome.value # False
           THEN sw.pc = "returned" /\ sw.result = sw.lastOutcome.value /\ ~GaveUp
           ELSE sw.pc = "pause" \/ (sw.pc = "returned" /\ sw.result = Null /\ GaveUp)

\* waitWithBackoff returned null on its second attempt of three, because the
\* condition returned null: a null result that is not an exhaustion
C28_Witness ==
    /\ InBackoff
    /\ sw.maxAttempts = 3
    /\ sw.calls = 2
    /\ sw.pc = "returned"
    /\ sw.result = Null
    /\ sw.lastOutcome = Returns(Null)
    /\ ~sw.exhausted

\* ------------------------------------------------------------ failed start
\* C29: after a startMockServer call has failed (its promise rejected on the
\* server's error event), the server is stopped again: isMockServerRunning() is
\* false and getMockServerUrl() is null.
C29_StoppedAfterFailedStart ==
    ret.startMockServer = Rejected =>
        /\ ~isMockServerRunning
        /\ getMockServerUrl = Null

\* ------------------------------------------------------- throwing handlers
Logged(i) == req[i].pc \notin {"none", "body"}

\* C30: every request that has been logged is eventually answered (with the
\* matched route's response or with 404), also when the responder function, a
\* request interceptor or a response interceptor throws.
C30_LoggedIsAnswered ==
    \A i \in 1..MaxRequests : [](Logged(i) => <>(req[i].pc = "done"))

====
